---- MODULE Spec2Model ----
(***************************************************************************)
(* A model of the core of organize: the rule selector (should_execute),    *)
(* the sequential and path-triggered executors of Config, the parallel     *)
(* runner (process_parallel), the directory Walker with and without the    *)
(* index, the FileIndex, the DirectoryWatcher and its event handler.       *)
(*                                                                         *)
(* Each component has its own group of variables and its own               *)
(* specification (SpecSel, SpecRun, SpecPar, SpecWalk, SpecWalkIdx,        *)
(* SpecIdx, SpecIxd, SpecConc, SpecWatch, SpecEv, SpecLock); a             *)
(* specification leaves the other components' variables at their idle      *)
(* values.                                                                 *)
(***************************************************************************)
EXTENDS Integers, Sequences, FiniteSets, Bags, TLC

VARIABLES
    \* ---- rule selector: one call of should_execute ----
    rule_tags,      \* argument rule_tags (Optional: <<>> is None, <<S>> is the set S)
    tags,           \* argument tags
    skip_tags,      \* argument skip_tags
    sel_result,     \* the returned boolean
    sel_pc,         \* "call" | "returned"
    cli_result,     \* the boolean cli.should_execute returned for the same
                    \* arguments
    cli_pc,         \* "call" | "returned"
    \* ---- Config.execute / Config.execute_for_path: one run ----
    run_entry,      \* the method called: "execute" | "execute_for_path" | "none"
    rules,          \* Config.rules
    run_tags,       \* argument tags of the run
    run_skip_tags,  \* argument skip_tags of the run
    path,           \* argument path of execute_for_path (a sequence of names)
    path_kind,      \* what is at path: "file" | "dir" | "missing"
    rule_nr,        \* position of the for loop (0-based as in enumerate)
    summary,        \* the ReportSummary of the run
    basedir,        \* resource.basedir (<<>> is None, <<root>> is a root)
    output_log,     \* the calls received by Output, in order
    executed,       \* the calls of rule.execute / rule.execute_for_resource, in
                    \* order, each with the basedir it was given and how it ended
    raised,         \* TRUE when the run left by an exception
    run_pc,         \* "idle" | "call" | "loop" | "finally" | "done"
    \* ---- process_parallel: one call ----
    items,          \* argument items
    processor,      \* argument processor: item -> outcome
    max_workers,    \* argument max_workers
    has_timeout,    \* TRUE when argument timeout is a number, FALSE when None
    future_state,   \* future -> "pending" | "running" | "finished"
    future_to_item, \* the dict future_to_item
    yielded,        \* the futures as_completed has yielded so far
    results,        \* the list results
    logged,         \* the items logger.error was called for, in order
    par_raised,     \* TRUE when the call left by TimeoutError
    invoked,        \* the futures whose processor(item) call a worker thread
                    \* has begun, in order
    par_pc,         \* "idle" | "call" | "collect" | "shutdown" | "returned"
    \* ---- Walker: one call of walk ----
    tree,           \* the filesystem below the root: a set of entries
    root_kind,      \* what the root itself is: "dir" | "file"
    walker,         \* the Walker's fields
    walk_files,     \* argument files of walk
    walk_dirs,      \* argument dirs of walk
    walk_out,       \* the entries the generator yielded, in order
    walk_visited,   \* the directories walk was called for (scanned)
    walk_pc,        \* "idle" | "call" | "exhausted"
    index_state,    \* what the global file_index does for walk: "ok" |
                    \* "unavailable" (the import raises ImportError or
                    \* AttributeError) | "import_fails" (the import raises
                    \* another error) | "query_fails" (get_files_by_tag raises)
    walk_raised,    \* TRUE when the generator left by an exception
    \* ---- FileIndex: the database and the last call of a method ----
    db,             \* the tables files and tags
    now,            \* the clock, time.time()
    idx_call,       \* the last call: method, arguments, result, time
    idx_before,     \* the database as that call found it
    \* ---- FileIndex.index_directory: one call, on the filesystem tree ----
    fs_fail,        \* the entry that cannot be read, if any: <<>> or
                    \* <<[path, how]>> with how "stat" (stat raises
                    \* PermissionError or FileNotFoundError) or "list"
                    \* (iterdir raises PermissionError)
    iter_order,     \* the order of iterdir: "forward" | "reverse"
    ixd_recursive,  \* argument recursive
    ixd_written,    \* the entries add_file was called for, in order
    ixd_count,      \* the returned count
    ixd_pc,         \* "idle" | "call" | "returned"
    \* ---- FileIndex: two threads, one call each, on one database ----
    conc_call,      \* thread -> the call it makes: [op, arg]
    conc_pc,        \* thread -> the number of statements it has executed
    conc_result,    \* thread -> what its SELECTs returned, in order
    conc_dbs,       \* the database at the start and after every commit
    \* ---- DirectoryWatcher ----
    has_watchdog,   \* HAS_WATCHDOG: the watchdog package could be imported
    observers,      \* the dict self.observers, in insertion order: entries
                    \* [key, thread, paths], key being id(callback), thread
                    \* the state of the Observer thread, paths the set
    running,        \* self._running
    schedules,      \* the calls of observer.schedule, in order: [key, path]
    watch_call,     \* the last call: [op, paths, callback, raised]
    watch_before,   \* self.observers and the number of schedule calls
                    \* as that call found them
    last_toggle,    \* the most recent of start and stop to have returned:
                    \* "start" | "stop" | "none"
    \* ---- OrganizeEventHandler: one handler and the events it is given ----
    ev_ignore_paths,    \* argument ignore_paths (Optional set of paths)
    ev_ignore_patterns, \* argument ignore_patterns (Optional list of patterns)
    ev_event,       \* the last event given to on_any_event, <<>> before
    ev_calls,       \* the calls of self.callback, in order: [path, event_type]
    ev_before,      \* the number of calls of self.callback before that event
    \* ---- DirectoryWatcher: threads that call its methods ----
    lk_holder,      \* self._lock: <<>> when free, <<t>> when thread t holds it
    lk_call,        \* thread -> the call it makes: [op, paths, callback]
    lk_pc,          \* thread -> "call" | "locked" | "iterating" | "returned"
    lk_len,         \* thread -> len(self.observers) when its iteration began
    lk_pos,         \* thread -> the number of entries its iteration has read
    lk_raised,      \* thread -> TRUE when its call left by an exception
    lk_access       \* the accesses of self.observers so far:
                    \* [thread, op, locked]

selVars  == <<rule_tags, tags, skip_tags, sel_result, sel_pc, cli_result, cli_pc>>
runVars  == <<run_entry, rules, run_tags, run_skip_tags, path, path_kind, rule_nr, summary,
              basedir, output_log, executed, raised, run_pc>>
parVars  == <<items, processor, max_workers, has_timeout, future_state,
              future_to_item, yielded, results, logged, par_raised, invoked,
              par_pc>>
walkVars == <<tree, root_kind, walker, walk_files, walk_dirs, walk_out,
              walk_visited, walk_pc, index_state, walk_raised>>
idxVars  == <<db, now, idx_call, idx_before>>
ixdVars  == <<fs_fail, iter_order, ixd_recursive, ixd_written, ixd_count, ixd_pc>>
concVars == <<conc_call, conc_pc, conc_result, conc_dbs>>
watchVars == <<has_watchdog, observers, running, schedules, watch_call, watch_before,
               last_toggle>>
evVars   == <<ev_ignore_paths, ev_ignore_patterns, ev_event, ev_calls, ev_before>>
lockVars == <<lk_holder, lk_call, lk_pc, lk_len, lk_pos, lk_raised, lk_access>>
vars     == <<selVars, runVars, parVars, walkVars, idxVars, ixdVars, concVars, watchVars,
              evVars, lockVars>>

\* Optional values: None is the empty tuple, a value v is <<v>>.
None == <<>>
Some(v) == <<v>>

(***************************************************************************)
(* Rule selector                                                           *)
(***************************************************************************)

\* The tag names of the model; "always" and "never" are the reserved ones.
TagNames == {"always", "never", "a", "b"}

\* `if not x: x = set()`: None and the empty set both become the empty set.
OrEmpty(x) == IF x = None THEN {} ELSE x[1]

\* any(tag in other for tag in mine)
AnyIn(mine, other) == \E t \in mine : t \in other

\* A copy of should_execute with the always/never tests after the default
\* test, the order the precedence must not take.
ShouldExecuteReordered(rt, t, st) ==
    LET r == OrEmpty(rt)
        g == OrEmpty(t)
        s == OrEmpty(st)
    IN  IF g = {} /\ s = {} THEN TRUE
        ELSE IF "always" \in r /\ "always" \notin s THEN TRUE
        ELSE IF "never" \in r /\ "never" \notin g THEN FALSE
        ELSE IF r = {} /\ g # {} THEN FALSE
        ELSE (AnyIn(r, g) \/ g = {} \/ r = {}) /\ ~AnyIn(r, s)

\* config.should_execute
ShouldExecute(rt, t, st) ==
    LET r == OrEmpty(rt)
        g == OrEmpty(t)
        s == OrEmpty(st)
    IN  IF "always" \in r /\ "always" \notin s THEN TRUE
        ELSE IF "never" \in r /\ "never" \notin g THEN FALSE
        ELSE IF g = {} /\ s = {} THEN TRUE
        ELSE IF r = {} /\ g # {} THEN FALSE
        ELSE LET should_run  == AnyIn(r, g) \/ g = {} \/ r = {}
                 should_skip == AnyIn(r, s)
             IN  should_run /\ ~should_skip

\* A copy of cli.should_execute without the test for a rule without tags.
CliShouldExecuteUntagged(rt, t, st) ==
    LET r == OrEmpty(rt)
        g == OrEmpty(t)
        s == OrEmpty(st)
    IN  IF "always" \in r /\ "always" \notin s THEN TRUE
        ELSE IF "never" \in r /\ "never" \notin g THEN FALSE
        ELSE IF g = {} /\ s = {} THEN TRUE
        ELSE LET should_run  == AnyIn(r, g) \/ g = {} \/ r = {}
                 should_skip == AnyIn(r, s)
             IN  should_run /\ ~should_skip

\* cli.should_execute
CliShouldExecute(rt, t, st) ==
    LET r == OrEmpty(rt)
        g == OrEmpty(t)
        s == OrEmpty(st)
    IN  IF "always" \in r /\ "always" \notin s THEN TRUE
        ELSE IF "never" \in r /\ "never" \notin g THEN FALSE
        ELSE IF g = {} /\ s = {} THEN TRUE
        ELSE IF r = {} /\ g # {} THEN FALSE
        ELSE LET should_run  == AnyIn(r, g) \/ g = {} \/ r = {}
                 should_skip == AnyIn(r, s)
             IN  should_run /\ ~should_skip

OptionalTags == {None} \cup {Some(S) : S \in SUBSET TagNames}

SelInit ==
    /\ rule_tags \in OptionalTags
    /\ tags \in OptionalTags
    /\ skip_tags \in OptionalTags
    /\ sel_result = FALSE
    /\ sel_pc = "call"
    /\ cli_result = FALSE
    /\ cli_pc = "call"

SelIdle ==
    /\ rule_tags = None
    /\ tags = None
    /\ skip_tags = None
    /\ sel_result = FALSE
    /\ sel_pc = "returned"
    /\ cli_result = FALSE
    /\ cli_pc = "returned"

\* One call of should_execute with the arguments drawn in SelInit.
CallShouldExecute ==
    /\ sel_pc = "call"
    /\ sel_result' = ShouldExecute(rule_tags, tags, skip_tags)
    /\ sel_pc' = "returned"
    /\ UNCHANGED <<rule_tags, tags, skip_tags, cli_result, cli_pc>>
    /\ UNCHANGED <<runVars, parVars, walkVars, idxVars, ixdVars, concVars, watchVars,
               evVars, lockVars>>

\* One call of cli.should_execute with the same arguments.
CallCliShouldExecute ==
    /\ cli_pc = "call"
    /\ cli_result' = CliShouldExecute(rule_tags, tags, skip_tags)
    /\ cli_pc' = "returned"
    /\ UNCHANGED <<rule_tags, tags, skip_tags, sel_result, sel_pc>>
    /\ UNCHANGED <<runVars, parVars, walkVars, idxVars, ixdVars, concVars, watchVars,
               evVars, lockVars>>

(***************************************************************************)
(* Config.execute and Config.execute_for_path                              *)
(***************************************************************************)

\* Bounds of the runs.
MaxRules == 2
MaxPathRules == 2
MaxMsgs == 1

\* ReportSummary and its addition (summary += rule_summary).
ReportSummary(s, e) == [success |-> s, errors |-> e]
SummaryAdd(x, y) == ReportSummary(x.success + y.success, x.errors + y.errors)

\* What one execution of a rule (Rule.execute, Rule.execute_for_resource) may
\* do: send some messages through Output, then return a summary or raise.
RuleSummaries == {ReportSummary(1, 0), ReportSummary(0, 1)}
RuleOutcomes  == {[raises |-> FALSE, summary |-> s] : s \in RuleSummaries}
                 \cup {[raises |-> TRUE, summary |-> ReportSummary(0, 0)]}

StartCall == [call |-> "start", sender |-> "config", level |-> "info",
              success |-> 0, errors |-> 0]
MsgCall(sender, level) == [call |-> "msg", sender |-> sender, level |-> level,
                           success |-> 0, errors |-> 0]
EndCall(s) == [call |-> "end", sender |-> "config", level |-> "info",
               success |-> s.success, errors |-> s.errors]

\* The k messages a rule sends while it runs.
RuleMsgs(k) == [i \in 1..k |-> MsgCall("rule", "info")]

\* Paths are sequences of names below the filesystem root.
RootIn  == <<"in">>
RootSub == <<"in", "sub">>

\* PurePath.relative_to: the rest of p below root, or ValueError (None).
RelativeTo(p, root) ==
    IF Len(root) <= Len(p) /\ SubSeq(p, 1, Len(root)) = root
    THEN Some(SubSeq(p, Len(root) + 1, Len(p)))
    ELSE None

\* The loops over rule.locations and location.path: the first root, in
\* order, that path.relative_to accepts (a Path is always truthy), or None.
RECURSIVE FirstRootIn(_, _)
FirstRootIn(roots, p) ==
    IF roots = <<>> THEN None
    ELSE IF RelativeTo(p, Head(roots)) # None THEN Some(Head(roots))
    ELSE FirstRootIn(Tail(roots), p)

RECURSIVE FirstMatch(_, _)
FirstMatch(locations, p) ==
    IF locations = <<>> THEN None
    ELSE LET m == FirstRootIn(Head(locations), p)
         IN  IF m # None THEN m ELSE FirstMatch(Tail(locations), p)

\* The target-kind test of execute_for_path: resource.is_file() is true of
\* a file only and resource.is_dir() of a directory only.
TargetsResource(rule, kind) ==
    /\ ~(rule.targets = "files" /\ kind # "file")
    /\ ~(rule.targets = "dirs" /\ kind # "dir")

\* A copy of LocationSkips in which `if not location_matches: continue` is
\* missing.
LocationSkipsNever(rule, p) == FALSE

\* `if rule.locations: ... if not location_matches: continue`
LocationSkips(rule, p) ==
    rule.locations # <<>> /\ FirstMatch(rule.locations, p) = None

\* The four `continue` tests of execute_for_path, in order.
PassesChecks(rule, t, st, p, kind) ==
    /\ rule.enabled
    /\ ShouldExecute(rule.tags, t, st)
    /\ TargetsResource(rule, kind)
    /\ ~LocationSkips(rule, p)

\* resource.basedir after the location loops of one iteration that got as
\* far as the location test: set when a root matched, left alone otherwise.
BasedirAfter(rule, p, before) ==
    IF rule.locations # <<>> /\ FirstMatch(rule.locations, p) # None
    THEN FirstMatch(rule.locations, p)
    ELSE before

ExecTagChoices == {Some({}), Some({"a"}), Some({"never"})}
ExecRules == [tags : ExecTagChoices, enabled : {TRUE}, targets : {"files"},
              locations : {<<>>}]
PathLocations == {<<>>, <<<<RootIn>>>>, <<<<RootSub>>>>, <<<<RootSub>>, <<RootIn>>>>}
PathRules == [tags : {Some({}), Some({"a"})}, enabled : BOOLEAN,
              targets : {"files", "dirs"}, locations : PathLocations]
\* The paths execute_for_path is called with, and what is found there.
PathChoices == {[path |-> <<"out", "f">>, kind |-> "file"],
                [path |-> <<"in", "f">>, kind |-> "file"],
                [path |-> <<"in", "sub">>, kind |-> "dir"],
                [path |-> <<"in", "sub", "f">>, kind |-> "file"],
                [path |-> <<"in", "gone">>, kind |-> "missing"]}

SeqsUpTo(S, n) == UNION {[1..k -> S] : k \in 0..n}

RunIdle ==
    /\ run_entry = "none"
    /\ rules = <<>>
    /\ run_tags = None
    /\ run_skip_tags = None
    /\ path = <<>>
    /\ path_kind = "missing"
    /\ rule_nr = 0
    /\ summary = ReportSummary(0, 0)
    /\ basedir = None
    /\ output_log = <<>>
    /\ executed = <<>>
    /\ raised = FALSE
    /\ run_pc = "idle"

ExecInit ==
    /\ run_entry = "execute"
    /\ rules \in SeqsUpTo(ExecRules, MaxRules)
    /\ run_tags \in {Some({}), Some({"a"})}
    /\ run_skip_tags \in {Some({}), Some({"a"})}
    /\ path = <<>>
    /\ path_kind = "missing"
    /\ rule_nr = 0
    /\ summary = ReportSummary(0, 0)
    /\ basedir = None
    /\ output_log = <<>>
    /\ executed = <<>>
    /\ raised = FALSE
    /\ run_pc = "call"

PathInit ==
    /\ run_entry = "execute_for_path"
    /\ rules \in SeqsUpTo(PathRules, MaxPathRules)
    /\ run_tags = Some({"a"})
    /\ run_skip_tags = Some({})
    /\ \E c \in PathChoices : path = c.path /\ path_kind = c.kind
    /\ rule_nr = 0
    /\ summary = ReportSummary(0, 0)
    /\ basedir = None
    /\ output_log = <<>>
    /\ executed = <<>>
    /\ raised = FALSE
    /\ run_pc = "call"

runInputs == <<run_entry, rules, run_tags, run_skip_tags, path, path_kind>>

\* Config.execute up to the loop: output.start, summary = ReportSummary().
ExecuteStart ==
    /\ run_entry = "execute"
    /\ run_pc = "call"
    /\ output_log' = Append(output_log, StartCall)
    /\ summary' = ReportSummary(0, 0)
    /\ rule_nr' = 0
    /\ run_pc' = "loop"
    /\ UNCHANGED <<runInputs, basedir, executed, raised>>
    /\ UNCHANGED <<selVars, parVars, walkVars, idxVars, ixdVars, concVars, watchVars,
               evVars, lockVars>>

\* One iteration of the loop of Config.execute over a rule the selector
\* refuses.
ExecuteSkipRule ==
    /\ run_pc = "loop"
    /\ rule_nr < Len(rules)
    /\ ~ShouldExecute(rules[rule_nr + 1].tags, run_tags, run_skip_tags)
    /\ rule_nr' = rule_nr + 1
    /\ UNCHANGED <<runInputs, summary, basedir, output_log, executed, raised, run_pc>>
    /\ UNCHANGED <<selVars, parVars, walkVars, idxVars, ixdVars, concVars, watchVars,
               evVars, lockVars>>

\* One iteration over a rule the selector approves: rule.execute sends its
\* messages, then returns its summary, which is added, or raises, which
\* leaves the loop for the finally clause.
ExecuteRule ==
    /\ run_pc = "loop"
    /\ rule_nr < Len(rules)
    /\ ShouldExecute(rules[rule_nr + 1].tags, run_tags, run_skip_tags)
    /\ \E o \in RuleOutcomes, k \in 0..MaxMsgs :
        /\ executed' = Append(executed, [rule_nr |-> rule_nr, basedir |-> None,
                                         outcome |-> o])
        /\ output_log' = output_log \o RuleMsgs(k)
        /\ IF o.raises
           THEN /\ raised' = TRUE
                /\ run_pc' = "finally"
                /\ UNCHANGED <<summary, rule_nr>>
           ELSE /\ summary' = SummaryAdd(summary, o.summary)
                /\ rule_nr' = rule_nr + 1
                /\ UNCHANGED <<raised, run_pc>>
    /\ UNCHANGED <<runInputs, basedir>>
    /\ UNCHANGED <<selVars, parVars, walkVars, idxVars, ixdVars, concVars, watchVars,
               evVars, lockVars>>

\* The loop of Config.execute is exhausted.
ExecuteLoopEnd ==
    /\ run_pc = "loop"
    /\ rule_nr = Len(rules)
    /\ run_pc' = "finally"
    /\ UNCHANGED <<runInputs, rule_nr, summary, basedir, output_log, executed, raised>>
    /\ UNCHANGED <<selVars, parVars, walkVars, idxVars, ixdVars, concVars, watchVars,
               evVars, lockVars>>

\* A copy of RunFinally with output.end after the loop instead of in a
\* finally clause: a pending exception leaves without the call.
RunFinallyUnlessRaised ==
    /\ run_pc = "finally"
    /\ output_log' = IF raised THEN output_log ELSE Append(output_log, EndCall(summary))
    /\ run_pc' = "done"
    /\ UNCHANGED <<runInputs, rule_nr, summary, basedir, executed, raised>>
    /\ UNCHANGED <<selVars, parVars, walkVars, idxVars, ixdVars, concVars, watchVars,
               evVars, lockVars>>

\* finally: output.end(summary.success, summary.errors); a pending
\* exception then goes on to the caller.
RunFinally ==
    /\ run_pc = "finally"
    /\ output_log' = Append(output_log, EndCall(summary))
    /\ run_pc' = "done"
    /\ UNCHANGED <<runInputs, rule_nr, summary, basedir, executed, raised>>
    /\ UNCHANGED <<selVars, parVars, walkVars, idxVars, ixdVars, concVars, watchVars,
               evVars, lockVars>>

\* Config.execute_for_path up to the loop: output.start, summary =
\* ReportSummary(), resource = Resource(path=path) with no basedir.
PathStart ==
    /\ run_entry = "execute_for_path"
    /\ run_pc = "call"
    /\ output_log' = Append(output_log, StartCall)
    /\ summary' = ReportSummary(0, 0)
    /\ basedir' = None
    /\ rule_nr' = 0
    /\ run_pc' = "path_loop"
    /\ UNCHANGED <<runInputs, executed, raised>>
    /\ UNCHANGED <<selVars, parVars, walkVars, idxVars, ixdVars, concVars, watchVars,
               evVars, lockVars>>

\* One iteration of the loop of execute_for_path that ends in a `continue`
\* (resource.basedir is assigned only when a root matches, and then the
\* iteration does not end in a `continue`).
PathSkipRule ==
    /\ run_pc = "path_loop"
    /\ rule_nr < Len(rules)
    /\ ~PassesChecks(rules[rule_nr + 1], run_tags, run_skip_tags, path, path_kind)
    /\ rule_nr' = rule_nr + 1
    /\ UNCHANGED <<runInputs, summary, basedir, output_log, executed, raised, run_pc>>
    /\ UNCHANGED <<selVars, parVars, walkVars, idxVars, ixdVars, concVars, watchVars,
               evVars, lockVars>>

\* A copy of PathRule without the try/except around execute_for_resource:
\* the exception leaves the loop as it does in Config.execute.
PathRulePropagates ==
    /\ run_pc = "path_loop"
    /\ rule_nr < Len(rules)
    /\ LET rule == rules[rule_nr + 1]
           base == BasedirAfter(rule, path, basedir)
       IN  /\ PassesChecks(rule, run_tags, run_skip_tags, path, path_kind)
           /\ basedir' = base
           /\ \E o \in RuleOutcomes, k \in 0..MaxMsgs :
               /\ executed' = Append(executed, [rule_nr |-> rule_nr, basedir |-> base,
                                                outcome |-> o])
               /\ output_log' = output_log \o RuleMsgs(k)
               /\ IF o.raises
                  THEN /\ raised' = TRUE
                       /\ run_pc' = "finally"
                       /\ UNCHANGED <<summary, rule_nr>>
                  ELSE /\ summary' = SummaryAdd(summary, o.summary)
                       /\ rule_nr' = rule_nr + 1
                       /\ UNCHANGED <<raised, run_pc>>
    /\ UNCHANGED runInputs
    /\ UNCHANGED <<selVars, parVars, walkVars, idxVars, ixdVars, concVars, watchVars,
               evVars, lockVars>>

\* One iteration that executes the rule for the resource: the summary is
\* added, or the exception is caught, reported through output.msg and
\* counted.
PathRule ==
    /\ run_pc = "path_loop"
    /\ rule_nr < Len(rules)
    /\ LET rule == rules[rule_nr + 1]
           base == BasedirAfter(rule, path, basedir)
       IN  /\ PassesChecks(rule, run_tags, run_skip_tags, path, path_kind)
           /\ basedir' = base
           /\ \E o \in RuleOutcomes, k \in 0..MaxMsgs :
               /\ executed' = Append(executed, [rule_nr |-> rule_nr, basedir |-> base,
                                                outcome |-> o])
               /\ IF o.raises
                  THEN /\ output_log' = (output_log \o RuleMsgs(k))
                                        \o <<MsgCall("execute_for_path", "error")>>
                       /\ summary' = ReportSummary(summary.success, summary.errors + 1)
                  ELSE /\ output_log' = output_log \o RuleMsgs(k)
                       /\ summary' = SummaryAdd(summary, o.summary)
    /\ rule_nr' = rule_nr + 1
    /\ UNCHANGED <<runInputs, raised, run_pc>>
    /\ UNCHANGED <<selVars, parVars, walkVars, idxVars, ixdVars, concVars, watchVars,
               evVars, lockVars>>

\* The loop of execute_for_path is exhausted.
PathLoopEnd ==
    /\ run_pc = "path_loop"
    /\ rule_nr = Len(rules)
    /\ run_pc' = "finally"
    /\ UNCHANGED <<runInputs, rule_nr, summary, basedir, output_log, executed, raised>>
    /\ UNCHANGED <<selVars, parVars, walkVars, idxVars, ixdVars, concVars, watchVars,
               evVars, lockVars>>


(***************************************************************************)
(* process_parallel                                                        *)
(***************************************************************************)

\* Bounds of the calls.
MaxItems == 3
MaxWorkers == 2

\* The units of work and what the processor does with each: it returns a
\* ReportSummary or raises.
ItemIds == {"u1", "u2"}

\* A future is the position of its item in the order of submission.
Futures(its) == 1..Len(its)

\* A copy of FutureToItem with key and value the other way round
\* ({item: executor.submit(processor, item)}): of two equal items the later
\* future replaces the earlier.
FutureToItemKeyedByItem(its) ==
    [f \in {g \in Futures(its) : \A h \in Futures(its) : its[h] = its[g] => h <= g}
        |-> its[f]]

\* {executor.submit(processor, item): item for item in items}: one entry for
\* each submitted item, keyed by its future.
FutureToItem(its) == [f \in Futures(its) |-> its[f]]

NumRunning == Cardinality({f \in DOMAIN future_state : future_state[f] = "running"})
AllFinished == \A f \in DOMAIN future_state : future_state[f] = "finished"

ParInit ==
    /\ items \in SeqsUpTo(ItemIds, MaxItems)
    /\ processor \in [ItemIds -> RuleOutcomes]
    /\ max_workers \in 1..MaxWorkers
    /\ has_timeout \in BOOLEAN
    /\ future_state = <<>>
    /\ future_to_item = <<>>
    /\ yielded = {}
    /\ results = <<>>
    /\ logged = <<>>
    /\ par_raised = FALSE
    /\ invoked = <<>>
    /\ par_pc = "call"

ParIdle ==
    /\ items = <<>>
    /\ processor = <<>>
    /\ max_workers = 1
    /\ has_timeout = FALSE
    /\ future_state = <<>>
    /\ future_to_item = <<>>
    /\ yielded = {}
    /\ results = <<>>
    /\ logged = <<>>
    /\ par_raised = FALSE
    /\ invoked = <<>>
    /\ par_pc = "idle"

parInputs == <<items, processor, max_workers, has_timeout>>

\* results = []; the executor is created and every item is submitted.
Submit ==
    /\ par_pc = "call"
    /\ future_state' = [f \in Futures(items) |-> "pending"]
    /\ future_to_item' = FutureToItem(items)
    /\ results' = <<>>
    /\ par_pc' = "collect"
    /\ UNCHANGED invoked
    /\ UNCHANGED <<parInputs, yielded, logged, par_raised>>
    /\ UNCHANGED <<selVars, runVars, walkVars, idxVars, ixdVars, concVars, watchVars,
               evVars, lockVars>>

\* A worker start of a pool that does not count its threads.
WorkerStartUnbounded ==
    /\ par_pc \in {"collect", "shutdown"}
    /\ \E f \in DOMAIN future_state :
        /\ future_state[f] = "pending"
        /\ \A g \in DOMAIN future_state : future_state[g] = "pending" => f <= g
        /\ future_state' = [future_state EXCEPT ![f] = "running"]
        /\ invoked' = Append(invoked, f)
    /\ UNCHANGED <<parInputs, future_to_item, yielded, results, logged, par_raised, par_pc>>
    /\ UNCHANGED <<selVars, runVars, walkVars, idxVars, ixdVars, concVars, watchVars,
               evVars, lockVars>>

\* A free worker thread of the pool takes the oldest queued work item.
WorkerStart ==
    /\ par_pc \in {"collect", "shutdown"}
    /\ NumRunning < max_workers
    /\ \E f \in DOMAIN future_state :
        /\ future_state[f] = "pending"
        /\ \A g \in DOMAIN future_state : future_state[g] = "pending" => f <= g
        /\ future_state' = [future_state EXCEPT ![f] = "running"]
        /\ invoked' = Append(invoked, f)
    /\ UNCHANGED <<parInputs, future_to_item, yielded, results, logged, par_raised, par_pc>>
    /\ UNCHANGED <<selVars, runVars, walkVars, idxVars, ixdVars, concVars, watchVars,
               evVars, lockVars>>

\* A worker thread ends processor(item): the future holds the result or the
\* exception.
WorkerFinish ==
    /\ par_pc \in {"collect", "shutdown"}
    /\ \E f \in DOMAIN future_state :
        /\ future_state[f] = "running"
        /\ future_state' = [future_state EXCEPT ![f] = "finished"]
    /\ UNCHANGED invoked
    /\ UNCHANGED <<parInputs, future_to_item, yielded, results, logged, par_raised, par_pc>>
    /\ UNCHANGED <<selVars, runVars, walkVars, idxVars, ixdVars, concVars, watchVars,
               evVars, lockVars>>

\* One iteration of the loop over as_completed(future_to_item): a finished
\* future not yet yielded is yielded; its result is appended to results, or
\* its exception is caught and logged with the item.
Collect ==
    /\ par_pc = "collect"
    /\ \E f \in DOMAIN future_to_item :
        /\ f \notin yielded
        /\ future_state[f] = "finished"
        /\ yielded' = yielded \cup {f}
        /\ LET item == future_to_item[f]
           IN  IF processor[item].raises
               THEN /\ logged' = Append(logged, item)
                    /\ UNCHANGED results
               ELSE /\ results' = Append(results, processor[item].summary)
                    /\ UNCHANGED logged
    /\ UNCHANGED invoked
    /\ UNCHANGED <<parInputs, future_state, future_to_item, par_raised, par_pc>>
    /\ UNCHANGED <<selVars, runVars, walkVars, idxVars, ixdVars, concVars, watchVars,
               evVars, lockVars>>

\* as_completed has yielded every future of the dict: the loop ends and the
\* with block is left.
CollectEnd ==
    /\ par_pc = "collect"
    /\ yielded = DOMAIN future_to_item
    /\ par_pc' = "shutdown"
    /\ UNCHANGED invoked
    /\ UNCHANGED <<parInputs, future_state, future_to_item, yielded, results, logged,
                   par_raised>>
    /\ UNCHANGED <<selVars, runVars, walkVars, idxVars, ixdVars, concVars, watchVars,
               evVars, lockVars>>

\* The timeout has elapsed when as_completed, with futures still to yield,
\* is about to wait: it raises TimeoutError, which leaves the with block.
Timeout ==
    /\ par_pc = "collect"
    /\ has_timeout
    /\ \E f \in DOMAIN future_to_item : f \notin yielded
    /\ par_raised' = TRUE
    /\ par_pc' = "shutdown"
    /\ UNCHANGED invoked
    /\ UNCHANGED <<parInputs, future_state, future_to_item, yielded, results, logged>>
    /\ UNCHANGED <<selVars, runVars, walkVars, idxVars, ixdVars, concVars, watchVars,
               evVars, lockVars>>

\* ThreadPoolExecutor.__exit__ is shutdown(wait=True): it returns when every
\* submitted work item has run; then results is returned, or the pending
\* TimeoutError goes on to the caller.
Shutdown ==
    /\ par_pc = "shutdown"
    /\ AllFinished
    /\ par_pc' = "returned"
    /\ UNCHANGED invoked
    /\ UNCHANGED <<parInputs, future_state, future_to_item, yielded, results, logged,
                   par_raised>>
    /\ UNCHANGED <<selVars, runVars, walkVars, idxVars, ixdVars, concVars, watchVars,
               evVars, lockVars>>

\* The loop of Config.execute run over the units in order: the summaries
\* are added until a unit raises, which ends the loop.
RECURSIVE SequentialSummary(_, _)
SequentialSummary(outcomes, acc) ==
    IF outcomes = <<>> \/ Head(outcomes).raises THEN acc
    ELSE SequentialSummary(Tail(outcomes), SummaryAdd(acc, Head(outcomes).summary))

\* The run summary of the parallel mode: the summaries the runner returned,
\* merged by addition.
RECURSIVE MergedSummary(_)
MergedSummary(rs) ==
    IF rs = <<>> THEN ReportSummary(0, 0)
    ELSE SummaryAdd(Head(rs), MergedSummary(Tail(rs)))

(***************************************************************************)
(* FileIndex                                                               *)
(***************************************************************************)

\* Bound of the clock (time.time()) and of the timestamps callers pass.
MaxTime == 2

Times == 0..MaxTime

\* The dataclass FileInfo.
FileInfo(p, d, s, m, c, t) ==
    [path |-> p, is_dir |-> d, size |-> s, mtime |-> m, ctime |-> c, indexed_at |-> t]

\* int(file_info.is_dir) on the way into the table, bool(row[1]) on the way out.
IntOfBool(b) == IF b THEN 1 ELSE 0
BoolOfInt(n) == n # 0

\* The row of table files that add_file writes for a FileInfo.
RowOf(info) ==
    [path |-> info.path, is_dir |-> IntOfBool(info.is_dir), size |-> info.size,
     mtime |-> info.mtime, ctime |-> info.ctime, indexed_at |-> info.indexed_at]

\* The FileInfo that get_file and get_files_by_tag build from a row.
InfoOf(row) ==
    FileInfo(row.path, BoolOfInt(row.is_dir), row.size, row.mtime, row.ctime,
             row.indexed_at)

\* A tag row.
TagRow(p, k, v) == [path |-> p, key |-> k, value |-> v]

\* The database: the rows of table files and the rows of table tags.
Db(files, tagrows) == [files |-> files, tags |-> tagrows]
EmptyDb == Db({}, {})

\* A foreign key without ON DELETE CASCADE and without enforcement: the tag
\* rows stay.
CascadeNothing(tagrows, gone) == tagrows

\* FOREIGN KEY (path) REFERENCES files(path) ON DELETE CASCADE: the tag rows
\* left once the file rows of the paths in gone are deleted.
Cascade(tagrows, gone) == {t \in tagrows : t.path \notin gone}

\* A copy of AddFile that keeps the indexed_at of the row it replaces.
AddFileKeepsStamp(d, info) ==
    LET replaced == {r \in d.files : r.path = info.path}
        row      == IF replaced = {} THEN RowOf(info)
                    ELSE [RowOf(info) EXCEPT
                             !.indexed_at = (CHOOSE r \in replaced : TRUE).indexed_at]
    IN  Db((d.files \ replaced) \cup {row},
           Cascade(d.tags, {r.path : r \in replaced}))

\* add_file: INSERT OR REPLACE INTO files. REPLACE deletes the row that has
\* the path already, and that delete cascades to the path's tag rows.
AddFile(d, info) ==
    LET replaced == {r \in d.files : r.path = info.path}
    IN  Db((d.files \ replaced) \cup {RowOf(info)},
           Cascade(d.tags, {r.path : r \in replaced}))

\* add_tag raises sqlite3.IntegrityError when no file row has the path
\* (PRAGMA foreign_keys = ON).
AddTagRaises(d, p) == \A r \in d.files : r.path # p

\* A copy of AddTag that inserts without replacing the row of (path, key).
AddTagWithoutReplace(d, p, k, v) ==
    IF AddTagRaises(d, p) THEN d
    ELSE Db(d.files, d.tags \cup {TagRow(p, k, v)})

\* add_tag: INSERT OR REPLACE INTO tags, the database after the call.
AddTag(d, p, k, v) ==
    IF AddTagRaises(d, p) THEN d
    ELSE Db(d.files,
            {t \in d.tags : ~(t.path = p /\ t.key = k)} \cup {TagRow(p, k, v)})

\* get_file: the FileInfo of the row with the path, or None.
GetFile(d, p) ==
    LET rows == {r \in d.files : r.path = p}
    IN  IF rows = {} THEN None ELSE Some(InfoOf(CHOOSE r \in rows : TRUE))

\* get_tag: the value of the row with (path, key), or None.
GetTag(d, p, k) ==
    LET rows == {t \in d.tags : t.path = p /\ t.key = k}
    IN  IF rows = {} THEN None ELSE Some((CHOOSE t \in rows : TRUE).value)

\* get_files_by_tag(key, value): files JOIN tags, as the set of its rows.
GetFilesByTag(d, k, v) ==
    {InfoOf(r) : r \in {f \in d.files :
                           \E t \in d.tags : t.path = f.path /\ t.key = k /\ t.value = v}}

\* A copy of RemoveFile without the cascade to the tag rows.
RemoveFileKeepsTags(d, p) == Db({r \in d.files : r.path # p}, d.tags)

\* remove_file: DELETE FROM files WHERE path = ?, with its cascade.
RemoveFile(d, p) ==
    LET deleted == {r \in d.files : r.path = p}
    IN  Db(d.files \ deleted, Cascade(d.tags, {r.path : r \in deleted}))

\* A copy of CleanIndex without the cascade to the tag rows.
CleanIndexKeepsTags(d, max_age, t) ==
    LET cutoff  == t - max_age
        deleted == {r \in d.files : r.indexed_at < cutoff}
    IN  [db |-> Db(d.files \ deleted, d.tags), count |-> Cardinality(deleted)]

\* clean_index(max_age) called at time t: the database after the call and
\* the returned cursor.rowcount.
CleanIndex(d, max_age, t) ==
    LET cutoff  == t - max_age
        deleted == {r \in d.files : r.indexed_at < cutoff}
    IN  [db |-> Db(d.files \ deleted, Cascade(d.tags, {r.path : r \in deleted})),
         count |-> Cardinality(deleted)]

\* The queries of get_statistics, one by one.
RECURSIVE SumOfSizes(_)
SumOfSizes(rows) ==
    IF rows = {} THEN 0
    ELSE LET r == CHOOSE x \in rows : TRUE IN r.size + SumOfSizes(rows \ {r})

FileCount(d) == Cardinality({r \in d.files : r.is_dir = 0})
DirCount(d) == Cardinality({r \in d.files : r.is_dir = 1})
TotalSize(d) == SumOfSizes({r \in d.files : r.is_dir = 0})
TagCount(d) == Cardinality(d.tags)
LastUpdate(d) ==
    IF d.files = {} THEN 0
    ELSE (CHOOSE r \in d.files : \A o \in d.files : o.indexed_at <= r.indexed_at).indexed_at

\* get_statistics when all its queries read the same database. last_update
\* is kept as the timestamp, database_size (the file's pages) is left out.
Statistics(d) ==
    [file_count |-> FileCount(d), directory_count |-> DirCount(d),
     total_size |-> TotalSize(d), tag_count |-> TagCount(d),
     last_update |-> LastUpdate(d)]

\* The paths, FileInfos, keys and values the calls are made with.
IdxFile == <<<<"f">>>>
IdxDir == <<<<"d", "2">>>>
IdxPaths == {IdxFile, IdxDir}

\* What path.stat() and path.is_dir() give for a path.
StatOf(p) ==
    IF p = IdxDir THEN [is_dir |-> TRUE, size |-> 0, mtime |-> 2, ctime |-> 1]
    ELSE [is_dir |-> FALSE, size |-> 3, mtime |-> 1, ctime |-> 1]

\* The FileInfos add_file is called with: the stat of the path and any
\* indexed_at.
FileInfos ==
    {FileInfo(p, StatOf(p).is_dir, StatOf(p).size, StatOf(p).mtime, StatOf(p).ctime, t) :
         p \in IdxPaths, t \in Times}
TagKeys == {"is_dir", "category"}
TagValues == {"True", "False"}

\* A call of a FileIndex method: its name, its arguments, its result (None
\* for the methods that return nothing), whether it raised, and the time of
\* the call.
IdxCall(op, arg, result, rs, t) ==
    [op |-> op, arg |-> arg, result |-> result, raised |-> rs, at |-> t]

IdxInit ==
    /\ db = EmptyDb
    /\ now = 0
    /\ idx_call = IdxCall("init", <<>>, None, FALSE, 0)
    /\ idx_before = EmptyDb

\* No method of the FileIndex has been called.
IdxQuiet ==
    /\ now = 0
    /\ idx_call = IdxCall("none", <<>>, None, FALSE, 0)
    /\ idx_before = EmptyDb

IdxIdle ==
    /\ db = EmptyDb
    /\ IdxQuiet

\* The clock at a call: the time of the call before, or later.
ClockAt(t) == t \in Times /\ t >= now

CallAddFile ==
    \E info \in FileInfos, t \in Times :
        /\ ClockAt(t)
        /\ now' = t
        /\ db' = AddFile(db, info)
        /\ idx_call' = IdxCall("add_file", [info |-> info], None, FALSE, t)
        /\ idx_before' = db
        /\ UNCHANGED <<selVars, runVars, parVars, walkVars, ixdVars, concVars, watchVars,
               evVars, lockVars>>

CallAddTag ==
    \E p \in IdxPaths, k \in TagKeys, v \in TagValues, t \in Times :
        /\ ClockAt(t)
        /\ now' = t
        /\ db' = AddTag(db, p, k, v)
        /\ idx_call' = IdxCall("add_tag", [path |-> p, key |-> k, value |-> v], None,
                               AddTagRaises(db, p), t)
        /\ idx_before' = db
        /\ UNCHANGED <<selVars, runVars, parVars, walkVars, ixdVars, concVars, watchVars,
               evVars, lockVars>>

CallGetFile ==
    \E p \in IdxPaths, t \in Times :
        /\ ClockAt(t)
        /\ now' = t
        /\ idx_call' = IdxCall("get_file", [path |-> p], GetFile(db, p), FALSE, t)
        /\ idx_before' = db
        /\ UNCHANGED db
        /\ UNCHANGED <<selVars, runVars, parVars, walkVars, ixdVars, concVars, watchVars,
               evVars, lockVars>>

CallGetTag ==
    \E p \in IdxPaths, k \in TagKeys, t \in Times :
        /\ ClockAt(t)
        /\ now' = t
        /\ idx_call' = IdxCall("get_tag", [path |-> p, key |-> k], GetTag(db, p, k),
                               FALSE, t)
        /\ idx_before' = db
        /\ UNCHANGED db
        /\ UNCHANGED <<selVars, runVars, parVars, walkVars, ixdVars, concVars, watchVars,
               evVars, lockVars>>

CallRemoveFile ==
    \E p \in IdxPaths, t \in Times :
        /\ ClockAt(t)
        /\ now' = t
        /\ db' = RemoveFile(db, p)
        /\ idx_call' = IdxCall("remove_file", [path |-> p], None, FALSE, t)
        /\ idx_before' = db
        /\ UNCHANGED <<selVars, runVars, parVars, walkVars, ixdVars, concVars, watchVars,
               evVars, lockVars>>

CallCleanIndex ==
    \E max_age \in Times, t \in Times :
        /\ ClockAt(t)
        /\ now' = t
        /\ db' = CleanIndex(db, max_age, t).db
        /\ idx_call' = IdxCall("clean_index", [max_age |-> max_age],
                               Some(CleanIndex(db, max_age, t).count), FALSE, t)
        /\ idx_before' = db
        /\ UNCHANGED <<selVars, runVars, parVars, walkVars, ixdVars, concVars, watchVars,
               evVars, lockVars>>

CallGetStatistics ==
    \E t \in Times :
        /\ ClockAt(t)
        /\ now' = t
        /\ idx_call' = IdxCall("get_statistics", <<>>, Some(Statistics(db)), FALSE, t)
        /\ idx_before' = db
        /\ UNCHANGED db
        /\ UNCHANGED <<selVars, runVars, parVars, walkVars, ixdVars, concVars, watchVars,
               evVars, lockVars>>

(***************************************************************************)
(* Walker                                                                  *)
(***************************************************************************)

\* Bound of min_depth and max_depth.
MaxDepth == 2

\* Names are sequences of characters.
D2  == <<"d", "2">>
D10 == <<"d", "1", "0">>
F   == <<"f">>
G   == <<"g">>
L   == <<"l">>

\* fnmatch(name, pat) for patterns of literal characters, * and ?.
RECURSIVE Fnmatch(_, _)
Fnmatch(name, pat) ==
    IF pat = <<>> THEN name = <<>>
    ELSE IF Head(pat) = "*"
         THEN \/ Fnmatch(name, Tail(pat))
              \/ name # <<>> /\ Fnmatch(Tail(name), pat)
    ELSE IF Head(pat) = "?"
         THEN name # <<>> /\ Fnmatch(Tail(name), Tail(pat))
    ELSE name # <<>> /\ Head(name) = Head(pat) /\ Fnmatch(Tail(name), Tail(pat))

\* pattern_match: any(fnmatch(name, pat) for pat in patterns)
PatternMatch(name, patterns) == \E pat \in patterns : Fnmatch(name, pat)

\* An entry of the filesystem: its path below the root and what it is.
Entry(p, kind) == [path |-> p, kind |-> kind]
EntryName(e) == e.path[Len(e.path)]
ParentOf(p) == SubSeq(p, 1, Len(p) - 1)

\* The entries a tree of the model may hold.
CandidateEntries ==
    {Entry(<<D2>>, "dir"), Entry(<<D2, F>>, "file"), Entry(<<D2, D10>>, "dir"),
     Entry(<<D2, D10, F>>, "file"), Entry(<<D10>>, "dir"), Entry(<<D10, G>>, "file"),
     Entry(<<F>>, "file"), Entry(<<L>>, "link")}

\* A tree holds, with an entry, the directory the entry is in.
IsTree(t) ==
    \A e \in t : Len(e.path) > 1 => Entry(ParentOf(e.path), "dir") \in t
Trees == {t \in SUBSET CandidateEntries : IsTree(t)}

\* os_sorted on the names of the model: natural order, d2 before d10.
OsSortedNames == <<D2, D10, F, G, L>>
NameRank(n) == CHOOSE i \in 1..Len(OsSortedNames) : OsSortedNames[i] = n

\* os_sorted(entries, key=lambda x: x.name) for entries of one directory.
RECURSIVE OsSorted(_)
OsSorted(es) ==
    IF es = {} THEN <<>>
    ELSE LET first == CHOOSE e \in es :
                          \A o \in es : NameRank(EntryName(e)) <= NameRank(EntryName(o))
         IN  <<first>> \o OsSorted(es \ {first})

\* scandir(top, collectfiles): the entries of the directory top without the
\* symbolic links, directories and others apart, each sorted.
Scandir(top, collectfiles) ==
    LET children == {e \in tree : Len(e.path) = Len(top) + 1 /\ ParentOf(e.path) = top
                                  /\ e.kind # "link"}
    IN  [dirs    |-> OsSorted({e \in children : e.kind = "dir"}),
         nondirs |-> IF collectfiles THEN OsSorted({e \in children : e.kind # "dir"})
                     ELSE <<>>]

\* Walker._should_yield_file
ShouldYieldFile(entry, lvl) ==
    /\ lvl >= walker.min_depth
    /\ ~PatternMatch(EntryName(entry), walker.exclude_files)
    /\ \/ walker.filter_files = None
       \/ PatternMatch(EntryName(entry), walker.filter_files[1])

\* A copy of DirPasses in which a match of filter_dirs overrides
\* exclude_dirs.
DirPassesFilterFirst(entry) ==
    \/ walker.filter_dirs # None /\ PatternMatch(EntryName(entry), walker.filter_dirs[1])
    \/ walker.filter_dirs = None /\ ~PatternMatch(EntryName(entry), walker.exclude_dirs)

\* Whether _dir_actions considers the directory entry at all.
DirPasses(entry) ==
    /\ ~PatternMatch(EntryName(entry), walker.exclude_dirs)
    /\ \/ walker.filter_dirs = None
       \/ PatternMatch(EntryName(entry), walker.filter_dirs[1])

\* A copy of DirActions that counts the traversal root as depth 0 and its
\* entries as depth 1.
DirActionsRootIsZero(entries, lvl) ==
    [to_walk  |-> SelectSeq(entries, LAMBDA e :
                      DirPasses(e) /\ (walker.max_depth = None
                                        \/ lvl + 1 < walker.max_depth[1])),
     to_yield |-> SelectSeq(entries, LAMBDA e :
                      DirPasses(e) /\ lvl + 1 >= walker.min_depth)]

\* Walker._dir_actions
DirActions(entries, lvl) ==
    [to_walk  |-> SelectSeq(entries, LAMBDA e :
                      DirPasses(e) /\ (walker.max_depth = None \/ lvl < walker.max_depth[1])),
     to_yield |-> SelectSeq(entries, LAMBDA e :
                      DirPasses(e) /\ lvl >= walker.min_depth)]

RECURSIVE Walk(_, _, _, _)
RECURSIVE WalkEach(_, _, _, _)

\* A copy of Walk whose breadth branch recurses before it yields the
\* directory's own entries.
RECURSIVE WalkRecurseFirst(_, _, _, _)
RECURSIVE WalkEachRecurseFirst(_, _, _, _)
WalkEachRecurseFirst(entries, files, dirs, lvl) ==
    IF entries = <<>> THEN <<>>
    ELSE WalkRecurseFirst(Head(entries).path, files, dirs, lvl)
         \o WalkEachRecurseFirst(Tail(entries), files, dirs, lvl)

WalkRecurseFirst(top, files, dirs, lvl) ==
    IF ~files /\ ~dirs THEN <<>>
    ELSE LET result      == Scandir(top, files)
             dir_actions == DirActions(result.dirs, lvl)
             own_files   == SelectSeq(result.nondirs,
                                      LAMBDA e : files /\ ShouldYieldFile(e, lvl))
             own_dirs    == IF dirs THEN dir_actions.to_yield ELSE <<>>
             below       == WalkEachRecurseFirst(dir_actions.to_walk, files, dirs, lvl + 1)
         IN  (below \o own_files) \o own_dirs

\* The recursion of walk over dir_actions.to_walk, in order.
WalkEach(entries, files, dirs, lvl) ==
    IF entries = <<>> THEN <<>>
    ELSE Walk(Head(entries).path, files, dirs, lvl) \o WalkEach(Tail(entries), files, dirs, lvl)

\* Walker.walk by scanning the filesystem: the sequence the generator yields.
Walk(top, files, dirs, lvl) ==
    IF ~files /\ ~dirs THEN <<>>
    ELSE LET result      == Scandir(top, files)
             dir_actions == DirActions(result.dirs, lvl)
             own_files   == SelectSeq(result.nondirs,
                                      LAMBDA e : files /\ ShouldYieldFile(e, lvl))
             own_dirs    == IF dirs THEN dir_actions.to_yield ELSE <<>>
             below       == WalkEach(dir_actions.to_walk, files, dirs, lvl + 1)
         IN  IF walker.method = "breadth"
             THEN (own_files \o own_dirs) \o below
             ELSE (below \o own_files) \o own_dirs

\* The directories walk is called for, the calls of the recursion included.
RECURSIVE Visited(_, _, _, _)
Visited(top, files, dirs, lvl) ==
    IF ~files /\ ~dirs THEN {}
    ELSE LET to_walk == DirActions(Scandir(top, files).dirs, lvl).to_walk
         IN  {top} \cup UNION {Visited(to_walk[i].path, files, dirs, lvl + 1) :
                                   i \in 1..Len(to_walk)}

\* The path of the traversal root and a path that is not below it.
Top == <<<<"t">>>>
Elsewhere == <<<<"o">>>>

\* The path of an entry of the tree as the index holds it.
IndexPath(e) == Top \o e.path

\* FileInfo.from_path at time t for a path that is a directory or a file.
FromPath(p, kind, t) == FileInfo(p, kind = "dir", IF kind = "dir" THEN 0 ELSE 3, 1, 1, t)

\* The index of a tree: a file row for the root, for every file and for
\* every directory, each tagged with str(is_dir) under "is_dir", and the
\* rows and tags of other.
IndexedRow(p, kind) == RowOf(FromPath(p, kind, 0))
IndexedTag(p, kind) == TagRow(p, "is_dir", IF kind = "dir" THEN "True" ELSE "False")
TreeDb(t, rk, other) ==
    LET es == {[path |-> IndexPath(e), kind |-> e.kind] : e \in {x \in t : x.kind # "link"}}
              \cup {[path |-> Top, kind |-> rk]} \cup other
    IN  Db({IndexedRow(e.path, e.kind) : e \in es},
           {IndexedTag(e.path, e.kind) : e \in es})

\* Rows of paths that are not below the root.
OtherRows == {[path |-> Elsewhere, kind |-> "dir"],
              [path |-> Elsewhere \o <<F>>, kind |-> "file"]}

\* The rows of a query in the order the cursor returns them. SQL fixes no
\* order for the query; the model takes one.
RECURSIVE RowsInOrder(_)
RowsInOrder(infos) ==
    IF infos = {} THEN <<>>
    ELSE LET first == CHOOSE i \in infos : TRUE
         IN  <<first>> \o RowsInOrder(infos \ {first})

\* Walker._should_yield_indexed_file: Path.relative_to(top), the depth
\* len(rel_path.parts) - 1, then the patterns on path.name.
ShouldYieldIndexedFile(p, top) ==
    /\ RelativeTo(p, top) # None
    /\ Len(RelativeTo(p, top)[1]) - 1 >= walker.min_depth
    /\ walker.max_depth = None \/ Len(RelativeTo(p, top)[1]) - 1 <= walker.max_depth[1]
    /\ ~PatternMatch(p[Len(p)], walker.exclude_files)
    /\ walker.filter_files = None \/ PatternMatch(p[Len(p)], walker.filter_files[1])

\* Walker._should_yield_indexed_dir
ShouldYieldIndexedDir(p, top) ==
    /\ RelativeTo(p, top) # None
    /\ Len(RelativeTo(p, top)[1]) - 1 >= walker.min_depth
    /\ walker.max_depth = None \/ Len(RelativeTo(p, top)[1]) - 1 <= walker.max_depth[1]
    /\ ~PatternMatch(p[Len(p)], walker.exclude_dirs)
    /\ walker.filter_dirs = None \/ PatternMatch(p[Len(p)], walker.filter_dirs[1])

\* Walker.walk with use_index and exactly one of files and dirs: the rows
\* tagged is_dir "False" (files) or "True" (dirs) that pass the check, each
\* yielded as the entry of its path below top.
IndexWalk(top, files) ==
    LET rows   == RowsInOrder(GetFilesByTag(db, "is_dir", IF files THEN "False" ELSE "True"))
        passes == SelectSeq(rows, LAMBDA i :
                      IF files THEN ShouldYieldIndexedFile(i.path, top)
                      ELSE ShouldYieldIndexedDir(i.path, top))
    IN  [j \in 1..Len(passes) |->
             Entry(RelativeTo(passes[j].path, top)[1], IF files THEN "file" ELSE "dir")]

PatternChoicesDirs  == {{}, {<<"d", "2">>}, {<<"*", "0">>}}
FilterChoicesDirs   == {None, Some({<<"d", "*">>}), Some({<<"d", "1", "0">>})}
PatternChoicesFiles == {{}, {<<"g">>}}
FilterChoicesFiles  == {None, Some({<<"?">>})}

Walkers ==
    [min_depth : 0..MaxDepth,
     max_depth : {None} \cup {Some(n) : n \in 0..MaxDepth},
     method : {"breadth", "depth"},
     filter_dirs : FilterChoicesDirs,
     filter_files : FilterChoicesFiles,
     exclude_dirs : PatternChoicesDirs,
     exclude_files : PatternChoicesFiles,
     use_index : {FALSE}]

\* The trees and Walkers of the traversals that use the index.
IndexedTrees == {t \in Trees : \A e \in t : e.kind # "link"}
IndexWalkers ==
    [min_depth : 0..MaxDepth,
     max_depth : {None} \cup {Some(n) : n \in 0..MaxDepth},
     method : {"breadth"},
     filter_dirs : {None, Some({<<"d", "1", "0">>})},
     filter_files : FilterChoicesFiles,
     exclude_dirs : {{}, {<<"d", "2">>}},
     exclude_files : PatternChoicesFiles,
     use_index : {TRUE}]

WalkInit ==
    /\ \/ root_kind = "dir" /\ tree \in Trees
       \/ root_kind = "file" /\ tree = {}
    /\ walker \in Walkers
    /\ walk_files = FALSE
    /\ walk_dirs = FALSE
    /\ walk_out = <<>>
    /\ walk_visited = {}
    /\ walk_pc = "call"
    /\ index_state = "ok"
    /\ walk_raised = FALSE

\* No Walker is at work.
WalkQuiet ==
    /\ walker = <<>>
    /\ walk_files = FALSE
    /\ walk_dirs = FALSE
    /\ walk_out = <<>>
    /\ walk_visited = {}
    /\ walk_pc = "idle"
    /\ index_state = "ok"
    /\ walk_raised = FALSE

WalkIdle ==
    /\ tree = {}
    /\ root_kind = "dir"
    /\ WalkQuiet

\* The traversal of a tree that was indexed: the index is the global
\* file_index, the Walker has use_index set.
WalkIdxInit ==
    /\ \/ root_kind = "dir" /\ tree \in IndexedTrees
       \/ root_kind = "file" /\ tree = {}
    /\ db \in {TreeDb(tree, root_kind, {}), TreeDb(tree, root_kind, OtherRows)}
    /\ walker \in IndexWalkers
    /\ index_state \in {"ok", "unavailable", "import_fails", "query_fails"}
    /\ walk_files = FALSE
    /\ walk_dirs = FALSE
    /\ walk_out = <<>>
    /\ walk_visited = {}
    /\ walk_pc = "call"
    /\ walk_raised = FALSE

walkInputs == <<tree, root_kind, walker, index_state>>

\* walk(root, files, dirs) run to exhaustion. With use_index the import of
\* file_index comes first; an ImportError or AttributeError is swallowed and
\* the scan follows, any other exception leaves the generator.
RunWalk(files, dirs) ==
    /\ walk_files' = files
    /\ walk_dirs' = dirs
    /\ walk_pc' = "exhausted"
    /\ IF walker.use_index /\ (files \/ dirs)
          /\ \/ index_state = "import_fails"
             \/ index_state = "query_fails" /\ files # dirs
       THEN /\ walk_out' = <<>>
            /\ walk_visited' = {}
            /\ walk_raised' = TRUE
       ELSE IF walker.use_index /\ index_state = "ok" /\ files # dirs
       THEN /\ walk_out' = IndexWalk(Top, files)
            /\ walk_visited' = {}
            /\ walk_raised' = FALSE
       ELSE /\ walk_out' = IF root_kind = "dir" THEN Walk(<<>>, files, dirs, 0) ELSE <<>>
            /\ walk_visited' = IF root_kind = "dir" THEN Visited(<<>>, files, dirs, 0)
                               ELSE {<<>>}
            /\ walk_raised' = FALSE

\* Walker.files(root), consumed to its end: the root itself when it is a
\* file, else walk(root, files=True, dirs=False).
CallFiles ==
    /\ walk_pc = "call"
    /\ IF root_kind = "file"
       THEN /\ walk_files' = TRUE
            /\ walk_dirs' = FALSE
            /\ walk_out' = <<Entry(<<>>, "file")>>
            /\ walk_visited' = {}
            /\ walk_pc' = "exhausted"
            /\ walk_raised' = FALSE
       ELSE RunWalk(TRUE, FALSE)
    /\ UNCHANGED walkInputs
    /\ UNCHANGED <<selVars, runVars, parVars, idxVars, ixdVars, concVars, watchVars,
               evVars, lockVars>>

\* Walker.dirs(root), consumed to its end: walk(root, files=False, dirs=True).
CallDirs ==
    /\ walk_pc = "call"
    /\ RunWalk(FALSE, TRUE)
    /\ UNCHANGED walkInputs
    /\ UNCHANGED <<selVars, runVars, parVars, idxVars, ixdVars, concVars, watchVars,
               evVars, lockVars>>

\* Walker.walk(root) with its default arguments files=True, dirs=True.
CallWalk ==
    /\ walk_pc = "call"
    /\ RunWalk(TRUE, TRUE)
    /\ UNCHANGED walkInputs
    /\ UNCHANGED <<selVars, runVars, parVars, idxVars, ixdVars, concVars, watchVars,
               evVars, lockVars>>

(***************************************************************************)
(* FileIndex.index_directory                                               *)
(***************************************************************************)

\* path.stat() raises for the path; directory.iterdir() raises for it.
StatFails(p) == fs_fail # None /\ fs_fail[1].path = p /\ fs_fail[1].how = "stat"
ListFails(p) == fs_fail # None /\ fs_fail[1].path = p /\ fs_fail[1].how = "list"

RECURSIVE Reversed(_)
Reversed(q) == IF q = <<>> THEN <<>> ELSE Reversed(Tail(q)) \o <<Head(q)>>

\* directory.iterdir(): the entries of the directory, in the order of the
\* listing.
IterDir(dir) ==
    LET children == {e \in tree : Len(e.path) = Len(dir) + 1 /\ ParentOf(e.path) = dir}
    IN  IF iter_order = "forward" THEN OsSorted(children) ELSE Reversed(OsSorted(children))

\* item.is_dir(): False for what stat cannot reach.
ItemIsDir(e) == e.kind = "dir" /\ ~StatFails(e.path)

RECURSIVE IndexDirectory(_, _)
RECURSIVE IndexItems(_, _)

\* A copy of IndexDirectory that does not index the directory itself.
IndexDirectoryWithoutSelf(dir, recursive) ==
    IF StatFails(dir) THEN <<>>
    ELSE IF ListFails(dir) THEN <<>>
    ELSE IndexItems(IterDir(dir), recursive)

\* index_directory(directory, recursive): the entries it calls add_file
\* for, in order. An error of stat or iterdir ends the call with what was
\* written so far.
IndexDirectory(dir, recursive) ==
    IF StatFails(dir) THEN <<>>
    ELSE <<Entry(dir, "dir")>>
         \o (IF ListFails(dir) THEN <<>> ELSE IndexItems(IterDir(dir), recursive))

\* The for loop of index_directory over the listing: an item whose stat
\* raises ends the loop, the except clause being outside of it.
IndexItems(its, recursive) ==
    IF its = <<>> THEN <<>>
    ELSE IF ItemIsDir(Head(its)) /\ recursive
         THEN IndexDirectory(Head(its).path, recursive) \o IndexItems(Tail(its), recursive)
    ELSE IF StatFails(Head(its).path) THEN <<>>
    ELSE <<Head(its)>> \o IndexItems(Tail(its), recursive)

\* The database after add_file(FileInfo.from_path(e)) for the entries of a
\* sequence, in order.
RECURSIVE AddFiles(_, _, _)
AddFiles(d, es, t) ==
    IF es = <<>> THEN d
    ELSE AddFiles(AddFile(d, FromPath(IndexPath(Head(es)), Head(es).kind, t)), Tail(es), t)

\* The entries that may fail: the root, or an entry of the tree.
Failures(t) ==
    {None}
    \cup {Some([path |-> e.path, how |-> "stat"]) : e \in t}
    \cup {Some([path |-> e.path, how |-> "list"]) : e \in {x \in t : x.kind = "dir"}}
    \cup {Some([path |-> <<>>, how |-> h]) : h \in {"stat", "list"}}

IxdInit ==
    /\ fs_fail \in Failures(tree)
    /\ iter_order \in {"forward", "reverse"}
    /\ ixd_recursive \in BOOLEAN
    /\ ixd_written = <<>>
    /\ ixd_count = 0
    /\ ixd_pc = "call"

IxdIdle ==
    /\ fs_fail = None
    /\ iter_order = "forward"
    /\ ixd_recursive = FALSE
    /\ ixd_written = <<>>
    /\ ixd_count = 0
    /\ ixd_pc = "idle"

\* index_directory(root, recursive) from its call to its return.
CallIndexDirectory ==
    /\ ixd_pc = "call"
    /\ ixd_written' = IndexDirectory(<<>>, ixd_recursive)
    /\ ixd_count' = Len(IndexDirectory(<<>>, ixd_recursive))
    /\ db' = AddFiles(db, IndexDirectory(<<>>, ixd_recursive), now)
    /\ ixd_pc' = "returned"
    /\ UNCHANGED <<fs_fail, iter_order, ixd_recursive, now, idx_call, idx_before>>
    /\ UNCHANGED <<selVars, runVars, parVars, walkVars, concVars, watchVars,
               evVars, lockVars>>

(***************************************************************************)
(* FileIndex called by two threads                                         *)
(***************************************************************************)

Threads == {"A", "B"}

\* The calls a thread may make.
ConcCalls ==
    {[op |-> "add_file", arg |-> [info |-> i]] : i \in FileInfos}
    \cup {[op |-> "add_tag", arg |-> [path |-> p, key |-> k, value |-> v]] :
              p \in IdxPaths, k \in TagKeys, v \in TagValues}
    \cup {[op |-> "remove_file", arg |-> [path |-> p]] : p \in IdxPaths}
    \cup {[op |-> "clean_index", arg |-> [max_age |-> a]] : a \in Times}
    \cup {[op |-> "get_file", arg |-> [path |-> p]] : p \in IdxPaths}
    \cup {[op |-> "get_tag", arg |-> [path |-> p, key |-> k]] :
              p \in IdxPaths, k \in TagKeys}
    \cup {[op |-> "get_statistics", arg |-> <<>>]}

Writes == {"add_file", "add_tag", "remove_file", "clean_index"}

\* The database after a call that writes: its statement and its commit are
\* one transaction of its connection.
Effect(d, c, t) ==
    IF c.op = "add_file" THEN AddFile(d, c.arg.info)
    ELSE IF c.op = "add_tag" THEN AddTag(d, c.arg.path, c.arg.key, c.arg.value)
    ELSE IF c.op = "remove_file" THEN RemoveFile(d, c.arg.path)
    ELSE IF c.op = "clean_index" THEN CleanIndex(d, c.arg.max_age, t).db
    ELSE d

\* The SELECTs of a call, in order: each is a transaction of its own, the
\* connection being in autocommit mode outside of a write.
Selects(c) ==
    IF c.op = "get_statistics"
    THEN <<"file_count", "directory_count", "total_size", "tag_count", "last_update">>
    ELSE IF c.op \in {"get_file", "get_tag"} THEN <<"row">>
    ELSE <<>>

\* What one SELECT of a call returns on a database.
Select(d, c, q) ==
    IF c.op = "get_file" THEN GetFile(d, c.arg.path)
    ELSE IF c.op = "get_tag" THEN GetTag(d, c.arg.path, c.arg.key)
    ELSE IF q = "file_count" THEN FileCount(d)
    ELSE IF q = "directory_count" THEN DirCount(d)
    ELSE IF q = "total_size" THEN TotalSize(d)
    ELSE IF q = "tag_count" THEN TagCount(d)
    ELSE LastUpdate(d)

\* What a call returns when all its SELECTs read the database d.
SelectsOn(d, c) == [i \in 1..Len(Selects(c)) |-> Select(d, c, Selects(c)[i])]

\* The databases the threads start on.
ConcDbs == {EmptyDb,
            AddTag(AddFile(EmptyDb, FromPath(IdxFile, "file", 0)), IdxFile, "category", "True")}

ConcInit ==
    /\ conc_call \in [Threads -> ConcCalls]
    /\ conc_pc = [t \in Threads |-> 0]
    /\ conc_result = [t \in Threads |-> <<>>]
    /\ conc_dbs = <<db>>

ConcIdle ==
    /\ conc_call = <<>>
    /\ conc_pc = <<>>
    /\ conc_result = <<>>
    /\ conc_dbs = <<>>

\* A thread has made its call.
Returned(t) ==
    IF conc_call[t].op \in Writes THEN conc_pc[t] = 1
    ELSE conc_pc[t] = Len(Selects(conc_call[t]))

\* A thread runs the INSERT or DELETE of its call and commits.
ConcWrite ==
    \E t \in Threads :
        /\ conc_call[t].op \in Writes
        /\ conc_pc[t] = 0
        /\ db' = Effect(db, conc_call[t], now)
        /\ conc_dbs' = Append(conc_dbs, Effect(db, conc_call[t], now))
        /\ conc_pc' = [conc_pc EXCEPT ![t] = 1]
        /\ conc_result' =
               [conc_result EXCEPT ![t] =
                   IF conc_call[t].op = "clean_index"
                   THEN <<CleanIndex(db, conc_call[t].arg.max_age, now).count>>
                   ELSE <<>>]
        /\ UNCHANGED <<conc_call, now, idx_call, idx_before>>
        /\ UNCHANGED <<selVars, runVars, parVars, walkVars, ixdVars, watchVars,
                     evVars, lockVars>>

\* A thread runs the next SELECT of its call.
ConcSelect ==
    \E t \in Threads :
        /\ conc_call[t].op \notin Writes
        /\ conc_pc[t] < Len(Selects(conc_call[t]))
        /\ conc_pc' = [conc_pc EXCEPT ![t] = @ + 1]
        /\ conc_result' =
               [conc_result EXCEPT ![t] =
                   Append(@, Select(db, conc_call[t], Selects(conc_call[t])[conc_pc[t] + 1]))]
        /\ UNCHANGED <<conc_call, conc_dbs, idxVars>>
        /\ UNCHANGED <<selVars, runVars, parVars, walkVars, ixdVars, watchVars,
                     evVars, lockVars>>

(***************************************************************************)
(* DirectoryWatcher                                                        *)
(***************************************************************************)

\* Bound of the length of the argument paths of watch.
MaxPaths == 2

Callbacks == {"c1", "c2"}
WatchPaths == {"p1", "p2"}

\* An entry of self.observers. The Observer is a thread: "new" before
\* start(), "alive" once started, "stopping" between stop() and the end of
\* the thread (is_alive() still True), "stopped" after it.
ObserverEntry(k, th, ps) == [key |-> k, thread |-> th, paths |-> ps]

Keys(obs) == {obs[i].key : i \in 1..Len(obs)}
EntryOf(obs, k) == obs[CHOOSE i \in 1..Len(obs) : obs[i].key = k]
IsAlive(th) == th \in {"alive", "stopping"}

\* The loop of watch over paths for a callback that has its entry: the
\* paths observer.schedule is called for, in order, existing_paths being
\* the set of the entry itself.
RECURSIVE NewPaths(_, _)
NewPaths(ps, existing) ==
    IF ps = <<>> THEN <<>>
    ELSE IF Head(ps) \in existing THEN NewPaths(Tail(ps), existing)
    ELSE <<Head(ps)>> \o NewPaths(Tail(ps), existing \cup {Head(ps)})

\* The call record of a method of the watcher.
WatchCall(op, ps, cb, rs) == [op |-> op, paths |-> ps, callback |-> cb, raised |-> rs]

WatchInit ==
    /\ has_watchdog \in BOOLEAN
    /\ observers = <<>>
    /\ running = FALSE
    /\ schedules = <<>>
    /\ watch_call = WatchCall("init", <<>>, "", FALSE)
    /\ watch_before = [observers |-> <<>>, schedules |-> 0]
    /\ last_toggle = "none"

WatchIdle ==
    /\ has_watchdog = FALSE
    /\ observers = <<>>
    /\ running = FALSE
    /\ schedules = <<>>
    /\ watch_call = WatchCall("none", <<>>, "", FALSE)
    /\ watch_before = [observers |-> <<>>, schedules |-> 0]
    /\ last_toggle = "none"

Remember == watch_before' = [observers |-> observers, schedules |-> Len(schedules)]

\* watch(paths, callback) without the watchdog package: an error is logged
\* and the call returns.
WatchWithoutWatchdog ==
    \E ps \in SeqsUpTo(WatchPaths, MaxPaths), cb \in Callbacks :
        /\ ~has_watchdog
        /\ watch_call' = WatchCall("watch", ps, cb, FALSE)
        /\ Remember
        /\ UNCHANGED <<has_watchdog, observers, running, schedules, last_toggle>>
        /\ UNCHANGED <<selVars, runVars, parVars, walkVars, idxVars, ixdVars, concVars,
                     evVars, lockVars>>

\* watch(paths, callback) for a callback that has no entry: the entry is
\* made, its Observer started when the watcher runs, and the loop over
\* paths reads existing_paths, a local that only the else branch binds:
\* with a path to look at the call leaves by UnboundLocalError.
WatchFirst ==
    \E ps \in SeqsUpTo(WatchPaths, MaxPaths), cb \in Callbacks :
        /\ has_watchdog
        /\ cb \notin Keys(observers)
        /\ observers' = Append(observers,
                               ObserverEntry(cb, IF running THEN "alive" ELSE "new", {}))
        /\ watch_call' = WatchCall("watch", ps, cb, ps # <<>>)
        /\ Remember
        /\ UNCHANGED <<has_watchdog, running, schedules, last_toggle>>
        /\ UNCHANGED <<selVars, runVars, parVars, walkVars, idxVars, ixdVars, concVars,
                     evVars, lockVars>>

\* watch(paths, callback) for a callback that has its entry: every path
\* that is not in the entry's set is scheduled and added.
WatchAgain ==
    \E ps \in SeqsUpTo(WatchPaths, MaxPaths), cb \in Callbacks :
        /\ has_watchdog
        /\ cb \in Keys(observers)
        /\ LET new == NewPaths(ps, EntryOf(observers, cb).paths)
           IN  /\ schedules' = schedules \o [i \in 1..Len(new) |-> [key |-> cb, path |-> new[i]]]
               /\ observers' = [i \in 1..Len(observers) |->
                                   IF observers[i].key = cb
                                   THEN [observers[i] EXCEPT
                                            !.paths = @ \cup {new[j] : j \in 1..Len(new)}]
                                   ELSE observers[i]]
        /\ watch_call' = WatchCall("watch", ps, cb, FALSE)
        /\ Remember
        /\ UNCHANGED <<has_watchdog, running, last_toggle>>
        /\ UNCHANGED <<selVars, runVars, parVars, walkVars, idxVars, ixdVars, concVars,
                     evVars, lockVars>>

\* The loop of start over the entries: an Observer that is not alive is
\* started; Thread.start() of one that has run before raises RuntimeError.
RECURSIVE StartAll(_)
StartAll(obs) ==
    IF obs = <<>> THEN [observers |-> <<>>, raised |-> FALSE]
    ELSE IF Head(obs).thread = "stopped"
         THEN [observers |-> obs, raised |-> TRUE]
    ELSE LET rest == StartAll(Tail(obs))
         IN  [observers |-> <<[Head(obs) EXCEPT
                                  !.thread = IF @ = "new" THEN "alive" ELSE @]>>
                            \o rest.observers,
              raised |-> rest.raised]

\* start()
WatchStart ==
    /\ running' = TRUE
    /\ observers' = StartAll(observers).observers
    /\ watch_call' = WatchCall("start", <<>>, "", StartAll(observers).raised)
    /\ last_toggle' = IF StartAll(observers).raised THEN last_toggle ELSE "start"
    /\ Remember
    /\ UNCHANGED <<has_watchdog, schedules>>
    /\ UNCHANGED <<selVars, runVars, parVars, walkVars, idxVars, ixdVars, concVars,
                     evVars, lockVars>>

\* stop(): every Observer that is alive is told to stop.
WatchStop ==
    /\ running' = FALSE
    /\ observers' = [i \in 1..Len(observers) |->
                        [observers[i] EXCEPT
                            !.thread = IF @ = "alive" THEN "stopping" ELSE @]]
    /\ watch_call' = WatchCall("stop", <<>>, "", FALSE)
    /\ last_toggle' = "stop"
    /\ Remember
    /\ UNCHANGED <<has_watchdog, schedules>>
    /\ UNCHANGED <<selVars, runVars, parVars, walkVars, idxVars, ixdVars, concVars,
                     evVars, lockVars>>

\* The thread of an Observer that was told to stop comes to its end.
ObserverExits ==
    \E i \in 1..Len(observers) :
        /\ observers[i].thread = "stopping"
        /\ observers' = [observers EXCEPT ![i].thread = "stopped"]
        /\ UNCHANGED <<has_watchdog, running, schedules, watch_call, watch_before, last_toggle>>
        /\ UNCHANGED <<selVars, runVars, parVars, walkVars, idxVars, ixdVars, concVars,
                     evVars, lockVars>>

(***************************************************************************)
(* OrganizeEventHandler                                                    *)
(***************************************************************************)

\* Bound of the number of calls of the callback of one handler.
MaxEvents == 2

\* Names of the watched filesystem, as sequences of characters: the
\* directories w and s, the symbolic link l to w, the files a.t and a.x.
NameW  == <<"w">>
NameS  == <<"s">>
NameL  == <<"l">>
NameAT == <<"a", ".", "t">>
NameAX == <<"a", ".", "x">>

\* Path(src_path).resolve(): the symbolic link l at the root stands for the
\* directory w.
Resolve(p) == [i \in 1..Len(p) |-> IF i = 1 /\ p[i] = NameL THEN NameW ELSE p[i]]

\* A pattern of PurePath.match: its parts, and whether it is absolute.
Pattern(abs, parts) == [absolute |-> abs, parts |-> parts]

\* path.match(pattern): the parts of the pattern are matched against the
\* last parts of the path, one fnmatch each; an absolute pattern has to
\* cover the whole path.
PathMatch(p, pat) ==
    /\ Len(pat.parts) <= Len(p)
    /\ pat.absolute => Len(pat.parts) = Len(p)
    /\ \A i \in 1..Len(pat.parts) :
          Fnmatch(p[Len(p) - Len(pat.parts) + i], pat.parts[i])

\* A filesystem event.
Event(d, p, ty) == [is_directory |-> d, src_path |-> p, event_type |-> ty]

EventPaths ==
    {<<NameW, NameAT>>, <<NameW, NameAX>>, <<NameL, NameAX>>, <<NameW, NameS, NameAT>>}
EventTypes == {"created", "modified"}
Events == {Event(d, p, ty) : d \in BOOLEAN, p \in EventPaths, ty \in EventTypes}

\* The arguments of the constructor; None stands for the default.
IgnorePathChoices ==
    {None, Some({}), Some({<<NameW, NameAX>>}), Some({<<NameL, NameAX>>})}
IgnorePatternChoices ==
    {None,
     Some(<<Pattern(FALSE, <<<<"*", ".", "t">>>>)>>),
     Some(<<Pattern(FALSE, <<NameW, <<"*">>>>)>>),
     Some(<<Pattern(TRUE, <<NameW, <<"*", ".", "t">>>>), Pattern(FALSE, <<NameAX>>)>>)}

\* `ignore_paths or set()` and `ignore_patterns or []`
OrEmptySet(x) == IF x = None THEN {} ELSE x[1]
OrEmptyList(x) == IF x = None THEN <<>> ELSE x[1]

\* on_any_event without the resolve: the path is compared as it came.
OnAnyEventUnresolved(ignore_paths, ignore_patterns, event) ==
    IF event.is_directory THEN <<>>
    ELSE LET p == event.src_path
         IN  IF p \in ignore_paths THEN <<>>
             ELSE IF \E i \in 1..Len(ignore_patterns) : PathMatch(p, ignore_patterns[i])
             THEN <<>>
             ELSE <<[path |-> p, event_type |-> event.event_type]>>

\* on_any_event: the calls of self.callback it makes for an event.
OnAnyEvent(ignore_paths, ignore_patterns, event) ==
    IF event.is_directory THEN <<>>
    ELSE LET p == Resolve(event.src_path)
         IN  IF p \in ignore_paths THEN <<>>
             ELSE IF \E i \in 1..Len(ignore_patterns) : PathMatch(p, ignore_patterns[i])
             THEN <<>>
             ELSE <<[path |-> p, event_type |-> event.event_type]>>

EvInit ==
    /\ ev_ignore_paths \in IgnorePathChoices
    /\ ev_ignore_patterns \in IgnorePatternChoices
    /\ ev_event = <<>>
    /\ ev_calls = <<>>
    /\ ev_before = 0

EvIdle ==
    /\ ev_ignore_paths = None
    /\ ev_ignore_patterns = None
    /\ ev_event = <<>>
    /\ ev_calls = <<>>
    /\ ev_before = 0

\* The observer thread gives the handler an event.
DeliverEvent ==
    \E event \in Events :
        /\ Len(ev_calls) < MaxEvents
        /\ ev_event' = <<event>>
        /\ ev_before' = Len(ev_calls)
        /\ ev_calls' = ev_calls \o OnAnyEvent(OrEmptySet(ev_ignore_paths),
                                              OrEmptyList(ev_ignore_patterns), event)
        /\ UNCHANGED <<ev_ignore_paths, ev_ignore_patterns>>
        /\ UNCHANGED <<selVars, runVars, parVars, walkVars, idxVars, ixdVars, concVars,
                       watchVars, lockVars>>

(***************************************************************************)
(* DirectoryWatcher: threads and self._lock                                *)
(***************************************************************************)

LockThreads == {"t1", "t2"}

\* The call of a thread.
LockCall(op, ps, cb) == [op |-> op, paths |-> ps, callback |-> cb]

LockCalls ==
    {LockCall("watch", ps, cb) : ps \in {<<>>, <<"p1">>}, cb \in Callbacks}
    \cup {LockCall(op, <<>>, "") : op \in {"start", "stop", "join"}}

\* The registries the threads may find.
LockRegistries ==
    {[observers |-> <<>>, running |-> FALSE],
     [observers |-> <<ObserverEntry("c1", "new", {})>>, running |-> FALSE],
     [observers |-> <<ObserverEntry("c1", "alive", {"p1"})>>, running |-> TRUE]}

\* The body of watch below `with self._lock`: what it leaves in
\* self.observers, the paths it schedules and whether it raises.
WatchBody(obs, run, ps, cb) ==
    IF cb \notin Keys(obs)
    THEN [observers |-> Append(obs, ObserverEntry(cb, IF run THEN "alive" ELSE "new", {})),
          scheduled |-> <<>>,
          raised |-> ps # <<>>]
    ELSE LET new == NewPaths(ps, EntryOf(obs, cb).paths)
         IN  [observers |-> [i \in 1..Len(obs) |->
                                IF obs[i].key = cb
                                THEN [obs[i] EXCEPT
                                         !.paths = @ \cup {new[j] : j \in 1..Len(new)}]
                                ELSE obs[i]],
              scheduled |-> [i \in 1..Len(new) |-> [key |-> cb, path |-> new[i]]],
              raised |-> FALSE]

\* An access of self.observers by thread t in its call.
Access(t) == [thread |-> t, op |-> lk_call[t].op, locked |-> lk_holder = Some(t)]

LockInit ==
    /\ lk_holder = None
    /\ lk_call \in [LockThreads -> LockCalls]
    /\ lk_pc = [t \in LockThreads |-> "call"]
    /\ lk_len = [t \in LockThreads |-> 0]
    /\ lk_pos = [t \in LockThreads |-> 0]
    /\ lk_raised = [t \in LockThreads |-> FALSE]
    /\ lk_access = {}

LockIdle ==
    /\ lk_holder = None
    /\ lk_call = <<>>
    /\ lk_pc = <<>>
    /\ lk_len = <<>>
    /\ lk_pos = <<>>
    /\ lk_raised = <<>>
    /\ lk_access = {}

\* `with self._lock:` of watch, start and stop: the thread waits until the
\* lock is free and takes it.
Acquire ==
    \E t \in LockThreads :
        /\ lk_pc[t] = "call"
        /\ lk_call[t].op \in {"watch", "start", "stop"}
        /\ lk_holder = None
        /\ lk_holder' = Some(t)
        /\ lk_pc' = [lk_pc EXCEPT ![t] = "locked"]
        /\ UNCHANGED <<lk_call, lk_len, lk_pos, lk_raised, lk_access>>
        /\ UNCHANGED <<selVars, runVars, parVars, walkVars, idxVars, ixdVars, concVars,
                       watchVars, evVars>>

\* The end of the with block, by return or by exception: the lock is free.
Release(t, rs) ==
    /\ lk_holder' = None
    /\ lk_pc' = [lk_pc EXCEPT ![t] = "returned"]
    /\ lk_raised' = [lk_raised EXCEPT ![t] = rs]
    /\ lk_access' = lk_access \cup {Access(t)}
    /\ UNCHANGED <<lk_call, lk_len, lk_pos>>
    /\ UNCHANGED <<has_watchdog, watch_call, watch_before, last_toggle>>
    /\ UNCHANGED <<selVars, runVars, parVars, walkVars, idxVars, ixdVars, concVars, evVars>>

\* watch, with the lock held.
LockedWatch ==
    \E t \in LockThreads :
        /\ lk_pc[t] = "locked"
        /\ lk_call[t].op = "watch"
        /\ LET body == WatchBody(observers, running, lk_call[t].paths, lk_call[t].callback)
           IN  /\ observers' = body.observers
               /\ schedules' = schedules \o body.scheduled
               /\ Release(t, body.raised)
        /\ UNCHANGED running

\* start, with the lock held.
LockedStart ==
    \E t \in LockThreads :
        /\ lk_pc[t] = "locked"
        /\ lk_call[t].op = "start"
        /\ running' = TRUE
        /\ observers' = StartAll(observers).observers
        /\ Release(t, StartAll(observers).raised)
        /\ UNCHANGED schedules

\* stop, with the lock held.
LockedStop ==
    \E t \in LockThreads :
        /\ lk_pc[t] = "locked"
        /\ lk_call[t].op = "stop"
        /\ running' = FALSE
        /\ observers' = [i \in 1..Len(observers) |->
                            [observers[i] EXCEPT
                                !.thread = IF @ = "alive" THEN "stopping" ELSE @]]
        /\ Release(t, FALSE)
        /\ UNCHANGED schedules

\* join: `for observer, _ in self.observers.values()` makes its iterator;
\* the method does not take the lock.
JoinBegin ==
    \E t \in LockThreads :
        /\ lk_pc[t] = "call"
        /\ lk_call[t].op = "join"
        /\ lk_pc' = [lk_pc EXCEPT ![t] = "iterating"]
        /\ lk_len' = [lk_len EXCEPT ![t] = Len(observers)]
        /\ lk_access' = lk_access \cup {Access(t)}
        /\ UNCHANGED <<lk_holder, lk_call, lk_pos, lk_raised>>
        /\ UNCHANGED <<selVars, runVars, parVars, walkVars, idxVars, ixdVars, concVars,
                       watchVars, evVars>>

\* join: the iterator is asked for the next entry. A dict that has changed
\* its size since the iterator was made raises RuntimeError; at the end of
\* the dict the loop ends; otherwise observer.join is called, which raises
\* RuntimeError for a thread that was never started.
JoinStep ==
    \E t \in LockThreads :
        /\ lk_pc[t] = "iterating"
        /\ IF Len(observers) # lk_len[t]
           THEN /\ lk_pc' = [lk_pc EXCEPT ![t] = "returned"]
                /\ lk_raised' = [lk_raised EXCEPT ![t] = TRUE]
                /\ UNCHANGED lk_pos
           ELSE IF lk_pos[t] = Len(observers)
           THEN /\ lk_pc' = [lk_pc EXCEPT ![t] = "returned"]
                /\ UNCHANGED <<lk_pos, lk_raised>>
           ELSE IF observers[lk_pos[t] + 1].thread = "new"
           THEN /\ lk_pc' = [lk_pc EXCEPT ![t] = "returned"]
                /\ lk_raised' = [lk_raised EXCEPT ![t] = TRUE]
                /\ lk_pos' = [lk_pos EXCEPT ![t] = @ + 1]
           ELSE /\ lk_pos' = [lk_pos EXCEPT ![t] = @ + 1]
                /\ UNCHANGED <<lk_pc, lk_raised>>
        /\ lk_access' = lk_access \cup {Access(t)}
        /\ UNCHANGED <<lk_holder, lk_call, lk_len>>
        /\ UNCHANGED <<selVars, runVars, parVars, walkVars, idxVars, ixdVars, concVars,
                       watchVars, evVars>>

(***************************************************************************)
(* Specifications                                                          *)
(***************************************************************************)

InitSel == SelInit /\ RunIdle /\ ParIdle /\ WalkIdle /\ IdxIdle /\ IxdIdle /\ ConcIdle /\ WatchIdle
           /\ EvIdle /\ LockIdle
NextSel == CallShouldExecute \/ CallCliShouldExecute
SpecSel == InitSel /\ [][NextSel]_vars

\* One run of Config.execute or of Config.execute_for_path.
InitRun == SelIdle /\ (ExecInit \/ PathInit) /\ ParIdle /\ WalkIdle /\ IdxIdle /\ IxdIdle /\ ConcIdle /\ WatchIdle
           /\ EvIdle /\ LockIdle
NextRun ==
    \/ ExecuteStart \/ ExecuteSkipRule \/ ExecuteRule \/ ExecuteLoopEnd
    \/ PathStart \/ PathSkipRule \/ PathRule \/ PathLoopEnd
    \/ RunFinally
SpecRun == InitRun /\ [][NextRun]_vars

\* One call of process_parallel.
InitPar == SelIdle /\ RunIdle /\ ParInit /\ WalkIdle /\ IdxIdle /\ IxdIdle /\ ConcIdle /\ WatchIdle
           /\ EvIdle /\ LockIdle
NextPar ==
    \/ Submit \/ WorkerStart \/ WorkerFinish
    \/ Collect \/ CollectEnd \/ Timeout \/ Shutdown
SpecPar == InitPar /\ [][NextPar]_vars

\* One traversal by a Walker.
InitWalk == SelIdle /\ RunIdle /\ ParIdle /\ WalkInit /\ IdxIdle /\ IxdIdle /\ ConcIdle /\ WatchIdle
           /\ EvIdle /\ LockIdle
NextWalk == CallFiles \/ CallDirs \/ CallWalk
SpecWalk == InitWalk /\ [][NextWalk]_vars

\* One traversal by a Walker that has use_index set.
InitWalkIdx == SelIdle /\ RunIdle /\ ParIdle /\ WalkIdxInit /\ IdxQuiet /\ IxdIdle /\ ConcIdle /\ WatchIdle
           /\ EvIdle /\ LockIdle
NextWalkIdx == CallFiles \/ CallDirs \/ CallWalk
SpecWalkIdx == InitWalkIdx /\ [][NextWalkIdx]_vars

\* Calls of the methods of one FileIndex, one after the other.
InitIdx == SelIdle /\ RunIdle /\ ParIdle /\ WalkIdle /\ IdxInit /\ IxdIdle /\ ConcIdle /\ WatchIdle
           /\ EvIdle /\ LockIdle
NextIdx ==
    \/ CallAddFile \/ CallAddTag \/ CallGetFile \/ CallGetTag
    \/ CallRemoveFile \/ CallCleanIndex \/ CallGetStatistics
SpecIdx == InitIdx /\ [][NextIdx]_vars

\* One call of index_directory on an empty index, and get_statistics.
InitIxd ==
    /\ SelIdle /\ RunIdle /\ ParIdle
    /\ tree \in IndexedTrees /\ root_kind = "dir" /\ WalkQuiet
    /\ db = EmptyDb /\ now \in Times
    /\ idx_call = IdxCall("none", <<>>, None, FALSE, 0) /\ idx_before = EmptyDb
    /\ IxdInit
    /\ ConcIdle
    /\ WatchIdle /\ EvIdle /\ LockIdle
NextIxd == CallIndexDirectory \/ CallGetStatistics
SpecIxd == InitIxd /\ [][NextIxd]_vars

\* Two threads that call one method of the FileIndex each.
InitConc ==
    /\ SelIdle /\ RunIdle /\ ParIdle /\ WalkIdle /\ IxdIdle
    /\ db \in ConcDbs /\ now \in Times
    /\ idx_call = IdxCall("none", <<>>, None, FALSE, 0) /\ idx_before = EmptyDb
    /\ ConcInit
    /\ WatchIdle /\ EvIdle /\ LockIdle
NextConc == ConcWrite \/ ConcSelect
SpecConc == InitConc /\ [][NextConc]_vars

\* One DirectoryWatcher and the calls of its methods, one after the other.
InitWatch ==
    /\ SelIdle /\ RunIdle /\ ParIdle /\ WalkIdle /\ IdxIdle /\ IxdIdle /\ ConcIdle
    /\ WatchInit /\ EvIdle /\ LockIdle
NextWatch ==
    \/ WatchWithoutWatchdog \/ WatchFirst \/ WatchAgain
    \/ WatchStart \/ WatchStop \/ ObserverExits
SpecWatch == InitWatch /\ [][NextWatch]_vars

\* One OrganizeEventHandler and the events its observer gives it.
InitEv ==
    /\ SelIdle /\ RunIdle /\ ParIdle /\ WalkIdle /\ IdxIdle /\ IxdIdle /\ ConcIdle
    /\ WatchIdle /\ EvInit /\ LockIdle
NextEv == DeliverEvent
SpecEv == InitEv /\ [][NextEv]_vars

\* Two threads that call one method of one DirectoryWatcher each.
InitLock ==
    /\ SelIdle /\ RunIdle /\ ParIdle /\ WalkIdle /\ IdxIdle /\ IxdIdle /\ ConcIdle
    /\ has_watchdog = TRUE
    /\ \E r \in LockRegistries : observers = r.observers /\ running = r.running
    /\ schedules = <<>>
    /\ watch_call = WatchCall("none", <<>>, "", FALSE)
    /\ watch_before = [observers |-> <<>>, schedules |-> 0]
    /\ last_toggle = "none"
    /\ EvIdle /\ LockInit
NextLock ==
    \/ Acquire \/ LockedWatch \/ LockedStart \/ LockedStop
    \/ JoinBegin \/ JoinStep
SpecLock == InitLock /\ [][NextLock]_vars

(***************************************************************************)
(* Properties of the rule selector                                         *)
(***************************************************************************)

\* C1: should_execute returns exactly the result of the five-step
\* precedence: (1) "always" in ruleTags and not in skipTags gives true;
\* (2) else "never" in ruleTags and not in requestedTags gives false;
\* (3) else requestedTags and skipTags both empty gives true; (4) else
\* ruleTags empty and requestedTags non-empty gives false; (5) otherwise
\* (ruleTags meets requestedTags, or requestedTags is empty, or ruleTags is
\* empty) and ruleTags does not meet skipTags.
C1_FiveStepPrecedence ==
    sel_pc = "returned" =>
        LET r  == OrEmpty(rule_tags)
            g  == OrEmpty(tags)
            s  == OrEmpty(skip_tags)
            s1 == "always" \in r /\ "always" \notin s
            s2 == "never" \in r /\ "never" \notin g
            s3 == g = {} /\ s = {}
            s4 == r = {} /\ g # {}
        IN  /\ s1 => sel_result = TRUE
            /\ ~s1 /\ s2 => sel_result = FALSE
            /\ ~s1 /\ ~s2 /\ s3 => sel_result = TRUE
            /\ ~s1 /\ ~s2 /\ ~s3 /\ s4 => sel_result = FALSE
            /\ ~s1 /\ ~s2 /\ ~s3 /\ ~s4 =>
                   sel_result = ((r \cap g # {} \/ g = {} \/ r = {}) /\ r \cap s = {})

\* A call in which the order of the steps decides: a rule tagged "never"
\* with no requested and no skipped tags is refused by step 2 before step 3
\* can accept it.
C1_Witness ==
    /\ sel_pc = "returned"
    /\ rule_tags = Some({"never"})
    /\ OrEmpty(tags) = {}
    /\ OrEmpty(skip_tags) = {}
    /\ sel_result = FALSE

(***************************************************************************)
(* Properties of Config.execute and Config.execute_for_path                *)
(***************************************************************************)

Last(q) == q[Len(q)]

\* The rule numbers rule.execute / rule.execute_for_resource was called for.
ExecutedNrs == {executed[j].rule_nr : j \in 1..Len(executed)}

\* The summary the executions so far add up to when each execution that
\* raised counts as raisedCounts.
RECURSIVE SummaryWith(_, _)
SummaryWith(ex, raisedCounts) ==
    IF ex = <<>> THEN ReportSummary(0, 0)
    ELSE SummaryAdd(SummaryWith(SubSeq(ex, 1, Len(ex) - 1), raisedCounts),
                    IF Last(ex).outcome.raises THEN raisedCounts
                    ELSE Last(ex).outcome.summary)

\* The same with each execution that raised counted as one error.
SummaryOf(ex) == SummaryWith(ex, ReportSummary(0, 1))

\* What the rules executed so far have returned to the run: in execute the
\* summaries of the rules that returned, in execute_for_path those and one
\* error for each rule that raised.
Accumulated ==
    IF run_entry = "execute" THEN SummaryWith(executed, ReportSummary(0, 0))
    ELSE SummaryOf(executed)

\* C2: in every run of execute and of execute_for_path Output receives
\* start exactly once, then zero or more msg, then end exactly once with
\* the summary accumulated so far, on every way out of the run that follows
\* start, a rule that raises included.
C2_StartMsgsEnd ==
    /\ run_pc = "call" => output_log = <<>>
    /\ run_pc \in {"loop", "path_loop", "finally"} =>
        /\ Len(output_log) >= 1
        /\ output_log[1] = StartCall
        /\ \A i \in 2..Len(output_log) : output_log[i].call = "msg"
    /\ run_pc = "done" =>
        /\ Len(output_log) >= 2
        /\ output_log[1] = StartCall
        /\ \A i \in 2..(Len(output_log) - 1) : output_log[i].call = "msg"
        /\ Last(output_log) = EndCall(summary)
        /\ Last(output_log) = EndCall(Accumulated)

\* A run of execute that a rule left by an exception after an earlier rule
\* had added to the summary and a message had been sent: end was still
\* called, with what was accumulated.
C2_Witness ==
    /\ run_entry = "execute"
    /\ run_pc = "done"
    /\ raised
    /\ Len(executed) >= 2
    /\ summary.success >= 1
    /\ Len(output_log) >= 3
    /\ Last(output_log).call = "end"

\* C3: in sequential execute an error raised while running one rule never
\* aborts the sibling rules: every later rule the selector approves is
\* still executed, and the run ends with the failure in the summary, not
\* as an aborted run.
C3_SiblingsStillRun ==
    (run_entry = "execute" /\ run_pc = "done") =>
        /\ \A i \in 1..Len(rules) :
               ShouldExecute(rules[i].tags, run_tags, run_skip_tags)
                   => (i - 1) \in ExecutedNrs
        /\ ~raised

\* The path of the call is below none of the roots of any rule.
PathOutsideEveryRoot ==
    \A i \in 1..Len(rules) :
        \A l \in 1..Len(rules[i].locations) :
            \A r \in 1..Len(rules[i].locations[l]) :
                LET root == rules[i].locations[l][r]
                IN  ~(Len(root) <= Len(path) /\ SubSeq(path, 1, Len(root)) = root)

Matches(rule) ==
    /\ rule.enabled
    /\ ShouldExecute(rule.tags, run_tags, run_skip_tags)
    /\ (rule.targets = "files" => path_kind = "file")
    /\ (rule.targets = "dirs" => path_kind = "dir")
    /\ \/ rule.locations = <<>>
       \/ \E l \in 1..Len(rule.locations) :
              \E r \in 1..Len(rule.locations[l]) :
                  LET root == rule.locations[l][r]
                  IN  Len(root) <= Len(path) /\ SubSeq(path, 1, Len(root)) = root

\* The number of error messages execute_for_path itself has sent.
ErrorMsgs ==
    Cardinality({i \in 1..Len(output_log) :
                    output_log[i] = MsgCall("execute_for_path", "error")})

Raisings == Cardinality({j \in 1..Len(executed) : executed[j].outcome.raises})

\* C7: in execute_for_path an exception raised by the execution of one
\* matching rule is caught: one error message goes through Output.msg, the
\* error count of the summary grows by exactly one, every later matching
\* rule is still executed for the path, and the exception never reaches
\* the caller.
C7_RuleErrorIsCaught ==
    run_entry = "execute_for_path" =>
        /\ ~raised
        /\ ErrorMsgs = Raisings
        /\ summary = SummaryOf(executed)
        /\ \A i \in 1..Len(rules) :
               (i <= rule_nr /\ Matches(rules[i])) => (i - 1) \in ExecutedNrs
        /\ run_pc = "done" => rule_nr = Len(rules)

\* A finished call in which the first of two matching rules raised and the
\* second was executed after it.
C7_Witness ==
    /\ run_entry = "execute_for_path"
    /\ run_pc = "done"
    /\ Len(executed) = 2
    /\ executed[1].outcome.raises
    /\ ~executed[2].outcome.raises
    /\ summary = ReportSummary(executed[2].outcome.summary.success,
                               executed[2].outcome.summary.errors + 1)

(***************************************************************************)
(* Properties of process_parallel                                          *)
(***************************************************************************)

\* The multiset of the elements of a sequence.
BagOfSeq(q) ==
    [v \in {q[i] : i \in 1..Len(q)} |-> Cardinality({i \in 1..Len(q) : q[i] = v})]

\* The submitted positions whose processor call raises, and the others.
RaisingPositions == {i \in 1..Len(items) : processor[items[i]].raises}
ReturningPositions == (1..Len(items)) \ RaisingPositions

\* The number of positions in P whose item, mapped by f, is v.
CountOf(P, f(_), v) == Cardinality({i \in P : f(items[i]) = v})
ResultOf(item) == processor[item].summary
ItemOf(item) == item

\* C4: with no timeout process_parallel returns a list holding exactly one
\* result for every item whose processor call did not raise (the same
\* multiset, in any order); an item whose call raises is logged, cancels no
\* sibling and removes no sibling's result.
C4_OneResultPerSuccess ==
    (par_pc = "returned" /\ ~has_timeout) =>
        /\ ~par_raised
        /\ Len(results) = Cardinality(ReturningPositions)
        /\ BagOfSeq(results)
             = [v \in {ResultOf(items[i]) : i \in ReturningPositions}
                  |-> CountOf(ReturningPositions, ResultOf, v)]
        /\ BagOfSeq(logged)
             = [v \in {items[i] : i \in RaisingPositions}
                  |-> CountOf(RaisingPositions, ItemOf, v)]
        /\ AllFinished
        /\ DOMAIN future_state = 1..Len(items)

\* A returned call in which one item raised and two equal items returned
\* equal results: both results are in the list.
C4_Witness ==
    /\ par_pc = "returned"
    /\ ~has_timeout
    /\ Len(items) = 3
    /\ Cardinality(RaisingPositions) = 1
    /\ items[1] = items[3]
    /\ 2 \in RaisingPositions
    /\ Len(results) = 2
    /\ results[1] = results[2]
    /\ Len(logged) = 1

\* C5: for every worker count and every completion order the total
\* success+errors aggregated over the units run through the parallel runner
\* equals the total of running the same units sequentially, workloads in
\* which some units fail included.
C5_ParallelTotalIsSequentialTotal ==
    (par_pc = "returned" /\ ~par_raised) =>
        LET par == MergedSummary(results)
            sq  == SequentialSummary([i \in 1..Len(items) |-> processor[items[i]]],
                                     ReportSummary(0, 0))
        IN  par.success + par.errors = sq.success + sq.errors

(***************************************************************************)
(* Properties of the Walker                                                *)
(***************************************************************************)

\* The entries of walk_out and where they are.
Yielded == {walk_out[i] : i \in 1..Len(walk_out)}
IndexOf(e) == CHOOSE i \in 1..Len(walk_out) : walk_out[i] = e
IsBelow(p, d) == Len(p) > Len(d) /\ SubSeq(p, 1, Len(d)) = d

\* The tree root/a/b.txt of the depth example, with d2 for a and f for b.txt.
ExampleTree == {Entry(<<D2>>, "dir"), Entry(<<D2, F>>, "file")}
IsExample ==
    /\ walk_pc = "exhausted"
    /\ root_kind = "dir"
    /\ tree = ExampleTree
    /\ walker.min_depth = 1
    /\ walker.max_depth = Some(1)
    /\ walker.filter_dirs = None /\ walker.filter_files = None
    /\ walker.exclude_dirs = {} /\ walker.exclude_files = {}

\* C8 as stated: with the traversal root at depth 0 and each descent adding
\* one (an entry n names below the root has depth n), the Walker yields an
\* entry only if its depth is at least minDepth and descends into a
\* subdirectory only if that subdirectory's depth is less than maxDepth; with
\* minDepth=1 and maxDepth=1 on root/a/b.txt, dirs(root) yields root/a and
\* files(root) does not yield root/a/b.txt.
C8_DepthCountedFromRoot ==
    (walk_pc = "exhausted" /\ root_kind = "dir") =>
        /\ \A e \in Yielded : Len(e.path) >= walker.min_depth
        /\ \A d \in walk_visited \ {<<>>} :
               walker.max_depth = None \/ Len(d) < walker.max_depth[1]
        /\ (IsExample /\ walk_dirs /\ ~walk_files) => Entry(<<D2>>, "dir") \in Yielded
        /\ (IsExample /\ walk_files /\ ~walk_dirs) => Entry(<<D2, F>>, "file") \notin Yielded

\* C8 as amended: with the entries directly in the traversal root at depth 0
\* and each descent adding one (an entry n names below the root has depth
\* n-1), the Walker on a directory root yields an entry only if its depth is
\* at least minDepth and descends into a subdirectory only if that
\* subdirectory's depth is less than maxDepth; with minDepth=1 and maxDepth=1
\* on root/a/b.txt, dirs(root) yields nothing (root/a has depth 0) and
\* files(root) yields root/a/b.txt (depth 1).
C8_DepthCountedFromEntries ==
    (walk_pc = "exhausted" /\ root_kind = "dir") =>
        /\ \A e \in Yielded : Len(e.path) - 1 >= walker.min_depth
        /\ \A d \in walk_visited \ {<<>>} :
               walker.max_depth = None \/ Len(d) - 1 < walker.max_depth[1]
        /\ (IsExample /\ walk_dirs /\ ~walk_files) => walk_out = <<>>
        /\ (IsExample /\ walk_files /\ ~walk_dirs) => walk_out = <<Entry(<<D2, F>>, "file")>>

\* files(root) on the example tree with minDepth=1 and maxDepth=1 has
\* descended into root/a and yielded root/a/b.txt.
C8_Witness ==
    /\ IsExample
    /\ walk_files /\ ~walk_dirs
    /\ <<D2>> \in walk_visited
    /\ walk_out = <<Entry(<<D2, F>>, "file")>>

\* C9: when scanning the filesystem, a directory whose name matches
\* excludeDirs is never yielded and never descended into, even when its name
\* also matches filterDirs; so nothing below an excluded directory is ever
\* yielded.
C9_ExcludedDirsAreCut ==
    (walk_pc = "exhausted" /\ root_kind = "dir") =>
        /\ \A e \in Yielded :
               /\ e.kind = "dir" => ~PatternMatch(EntryName(e), walker.exclude_dirs)
               /\ \A k \in 1..(Len(e.path) - 1) :
                      ~PatternMatch(e.path[k], walker.exclude_dirs)
        /\ \A d \in walk_visited \ {<<>>} :
               ~PatternMatch(d[Len(d)], walker.exclude_dirs)

\* A traversal of a tree in which the directory d2, with a file in it,
\* matches excludeDirs and filterDirs at once, depth bounds permitting, while
\* another directory is yielded.
C9_Witness ==
    /\ walk_pc = "exhausted"
    /\ walk_files /\ walk_dirs
    /\ Entry(<<D2, F>>, "file") \in tree
    /\ walker.exclude_dirs = {D2}
    /\ walker.filter_dirs = Some({<<"d", "*">>})
    /\ walker.filter_files = None /\ walker.exclude_files = {}
    /\ walker.min_depth = 0 /\ walker.max_depth = None
    /\ Entry(<<D10>>, "dir") \in Yielded
    /\ Entry(<<D2>>, "dir") \notin Yielded
    /\ <<D2>> \notin walk_visited

\* C10: for every directory the Walker visits, with method=breadth its
\* yielded files come first, then its yielded subdirectory entries, then
\* what is yielded from inside its subdirectories, each subdirectory's
\* output contiguous and the subdirectories in sorted order; with
\* method=depth everything yielded from inside its subdirectories comes
\* before the directory's own files and subdirectory entries.
C10_OrderWithinDirectory ==
    walk_pc = "exhausted" =>
        \A d \in walk_visited :
            LET own_files == {e \in Yielded : ParentOf(e.path) = d /\ e.kind # "dir"
                                              /\ e.path # <<>>}
                own_dirs  == {e \in Yielded : ParentOf(e.path) = d /\ e.kind = "dir"
                                              /\ e.path # <<>>}
                inside    == {e \in Yielded : IsBelow(ParentOf(e.path), d)}
            IN  /\ walker.method = "breadth" =>
                    /\ \A x \in own_files, y \in own_dirs : IndexOf(x) < IndexOf(y)
                    /\ \A x \in own_files \cup own_dirs, y \in inside :
                           IndexOf(x) < IndexOf(y)
                    /\ \A x \in inside, y \in inside :
                           NameRank(x.path[Len(d) + 1]) < NameRank(y.path[Len(d) + 1])
                               => IndexOf(x) < IndexOf(y)
                /\ walker.method = "depth" =>
                    \A x \in inside, y \in own_files \cup own_dirs :
                        IndexOf(x) < IndexOf(y)

\* A breadth-first walk(root) that yielded the root's file, then its two
\* directories, then a file from inside each of them.
C10_Witness ==
    /\ walk_pc = "exhausted"
    /\ walker.method = "breadth"
    /\ walk_out = <<Entry(<<F>>, "file"), Entry(<<D2>>, "dir"), Entry(<<D10>>, "dir"),
                    Entry(<<D2, F>>, "file"), Entry(<<D10, G>>, "file")>>

(***************************************************************************)
(* Properties of the FileIndex                                             *)
(***************************************************************************)

\* The path a call of get_file, get_tag, add_tag or remove_file names.
CallPath == idx_call.arg.path

\* C13: add_file(info) followed by get_file(info.path) returns a FileInfo
\* equal to info in every field; and once remove_file(path) has run,
\* get_file(path) returns None and get_tag(path, key) returns None for every
\* key, the keys the path had tags for included.
C13_RoundTripAndRemoval ==
    /\ idx_call.op = "add_file" =>
           GetFile(db, idx_call.arg.info.path) = Some(idx_call.arg.info)
    /\ idx_call.op = "get_file" =>
           \A info \in FileInfos :
               info.path = CallPath /\ RowOf(info) \in idx_before.files
                   => idx_call.result = Some(info)
    /\ idx_call.op = "remove_file" =>
           /\ GetFile(db, CallPath) = None
           /\ \A k \in TagKeys : GetTag(db, CallPath, k) = None
    /\ idx_call.op = "get_tag" =>
           ((\A r \in idx_before.files : r.path # CallPath) => idx_call.result = None)

\* remove_file has run for a path that had a file row and tag rows.
C13_Witness ==
    /\ idx_call.op = "remove_file"
    /\ \E r \in idx_before.files : r.path = CallPath
    /\ \E t \in idx_before.tags : t.path = CallPath
    /\ db.files # {}

\* The rows of the database before a clean_index call that are older than
\* the call's cutoff.
OldRows ==
    {r \in idx_before.files : r.indexed_at < idx_call.at - idx_call.arg.max_age}

\* C14: clean_index(max_age) returns the number N of file rows whose
\* indexed_at is older than now - max_age, deletes exactly those rows and
\* all tag rows of their paths, and leaves the other rows and the tag rows of
\* their paths as they were.
C14_CleanRemovesExactlyTheOld ==
    idx_call.op = "clean_index" =>
        /\ idx_call.result = Some(Cardinality(OldRows))
        /\ db.files = idx_before.files \ OldRows
        /\ db.tags = {t \in idx_before.tags : \A r \in OldRows : r.path # t.path}
        /\ \A t \in idx_before.tags :
               (\E r \in idx_before.files \ OldRows : r.path = t.path) => t \in db.tags

\* clean_index has deleted an old row that had a tag and kept a newer row
\* that has one.
C14_Witness ==
    /\ idx_call.op = "clean_index"
    /\ idx_call.result = Some(1)
    /\ \E r \in OldRows : \E t \in idx_before.tags : t.path = r.path
    /\ \E r \in db.files : /\ r.indexed_at > idx_call.at - idx_call.arg.max_age
                           /\ \E t \in db.tags : t.path = r.path

\* C15 as the specification states it: after add_file the stored indexed_at
\* of the path is the time of that add_file call.
C15_StampIsTimeOfCall ==
    idx_call.op = "add_file" =>
        \A r \in db.files :
            r.path = idx_call.arg.info.path => r.indexed_at = idx_call.at

\* C15: after add_file(info), insert or update, the path has one row and its
\* indexed_at is info.indexed_at, the value the caller passed.
C15_StampIsCallersValue ==
    idx_call.op = "add_file" =>
        /\ \E r \in db.files : r.path = idx_call.arg.info.path
        /\ \A r \in db.files :
               r.path = idx_call.arg.info.path
                   => r.indexed_at = idx_call.arg.info.indexed_at

\* add_file has updated a row with a FileInfo whose indexed_at is older than
\* the call and differs from the one stored before.
C15_Witness ==
    /\ idx_call.op = "add_file"
    /\ idx_call.arg.info.indexed_at < idx_call.at
    /\ \E r \in idx_before.files :
           /\ r.path = idx_call.arg.info.path
           /\ r.indexed_at # idx_call.arg.info.indexed_at

\* The tag rows other than the one of (path, key).
OtherTags(tagrows, p, k) == {t \in tagrows : ~(t.path = p /\ t.key = k)}

\* C16 as the specification states it: for any path, add_tag(path, key,
\* value) followed by get_tag(path, key) returns value.
C16_AddTagThenGetTagAnyPath ==
    idx_call.op = "add_tag" =>
        GetTag(db, CallPath, idx_call.arg.key) = Some(idx_call.arg.value)

\* C16: for a path that has a file row, add_tag(path, key, value) followed
\* by get_tag(path, key) returns value, (path, key) has exactly one row, the
\* tag rows of other keys and paths and the file rows are as before, and the
\* same add_tag applied again changes nothing; for a path without a file row
\* add_tag raises and the database is as before. No (path, key) ever has
\* two values.
C16_AddTagOnIndexedPath ==
    /\ \A t1 \in db.tags, t2 \in db.tags :
           t1.path = t2.path /\ t1.key = t2.key => t1.value = t2.value
    /\ idx_call.op = "add_tag" =>
           IF \A r \in idx_before.files : r.path # CallPath
           THEN idx_call.raised /\ db = idx_before
           ELSE /\ ~idx_call.raised
                /\ GetTag(db, CallPath, idx_call.arg.key) = Some(idx_call.arg.value)
                /\ Cardinality({t \in db.tags : /\ t.path = CallPath
                                                /\ t.key = idx_call.arg.key}) = 1
                /\ OtherTags(db.tags, CallPath, idx_call.arg.key)
                       = OtherTags(idx_before.tags, CallPath, idx_call.arg.key)
                /\ db.files = idx_before.files
                /\ AddTag(db, CallPath, idx_call.arg.key, idx_call.arg.value) = db
                /\ (TagRow(CallPath, idx_call.arg.key, idx_call.arg.value)
                        \in idx_before.tags => db = idx_before)
    /\ idx_call.op = "get_tag" =>
           \A v \in TagValues :
               TagRow(CallPath, idx_call.arg.key, v) \in idx_before.tags
                   => idx_call.result = Some(v)

\* add_tag has replaced the value of a (path, key) while the path has a tag
\* of another key and another path has a tag of the same key.
C16_Witness ==
    /\ idx_call.op = "add_tag"
    /\ ~idx_call.raised
    /\ \E t \in idx_before.tags :
           /\ t.path = CallPath
           /\ t.key = idx_call.arg.key
           /\ t.value # idx_call.arg.value
    /\ \E t \in db.tags : t.path = CallPath /\ t.key # idx_call.arg.key
    /\ \E t \in db.tags : t.path # CallPath /\ t.key = idx_call.arg.key

(***************************************************************************)
(* Properties of the Walker with use_index                                 *)
(***************************************************************************)

\* What walk yields by scanning the filesystem for the call that was made:
\* the paths below the root.
ScanYields ==
    IF root_kind = "dir"
    THEN {Walk(<<>>, walk_files, walk_dirs, 0)[i].path :
              i \in 1..Len(Walk(<<>>, walk_files, walk_dirs, 0))}
    ELSE IF walk_files THEN {<<>>} ELSE {}

\* Every file and directory of the tree has its row in the index and its
\* tag is_dir.
FullyIndexed ==
    \A e \in tree :
        e.kind # "link" =>
            /\ IndexedRow(IndexPath(e), e.kind) \in db.files
            /\ IndexedTag(IndexPath(e), e.kind) \in db.tags

\* C11: for a tree that is fully indexed and tagged, files(root) and
\* dirs(root) of a Walker with use_index yield the set of paths that the
\* scan of the filesystem yields, whatever min_depth, max_depth and the
\* patterns are.
C11_IndexYieldsWhatScanYields ==
    (/\ walk_pc = "exhausted"
     /\ walker.use_index
     /\ index_state = "ok"
     /\ walk_files # walk_dirs
     /\ FullyIndexed)
        => /\ ~walk_raised
           /\ {walk_out[i].path : i \in 1..Len(walk_out)} = ScanYields

\* C12: with use_index set and an index that cannot be used, be it
\* unavailable or failing, files(root) and dirs(root) raise nothing and
\* yield what the scan of the filesystem yields.
C12_UnusableIndexFallsBack ==
    (/\ walk_pc = "exhausted"
     /\ walker.use_index
     /\ index_state # "ok"
     /\ walk_files # walk_dirs)
        => /\ ~walk_raised
           /\ {walk_out[i].path : i \in 1..Len(walk_out)} = ScanYields

(***************************************************************************)
(* Properties of FileIndex.index_directory                                 *)
(***************************************************************************)

Files(t) == {e \in t : e.kind = "file"}
Dirs(t) == {e \in t : e.kind = "dir"}
Children(t) == {e \in t : Len(e.path) = 1}
Written == {ixd_written[i] : i \in 1..Len(ixd_written)}

Failing == fs_fail[1].path
ReadableSiblings ==
    {e \in tree : /\ Len(e.path) = Len(Failing)
                  /\ ParentOf(e.path) = ParentOf(Failing)
                  /\ e.path # Failing}

\* The call comes to the entry that fails: the root, any entry when the
\* call is recursive, else a direct child that stat fails for.
ErrorOccurs ==
    /\ fs_fail # None
    /\ \/ Failing = <<>>
       \/ ixd_recursive
       \/ Len(Failing) = 1 /\ fs_fail[1].how = "stat"

\* C18: when stat or iterdir fails for one entry, index_directory returns
\* without raising: nothing below the failing entry is indexed, every
\* sibling of the failing entry is indexed, and the count is the number of
\* entries written to the index.
C18_SiblingsOfFailureIndexed ==
    (ixd_pc = "returned" /\ ErrorOccurs) =>
        /\ ixd_count = Len(ixd_written)
        /\ ixd_count = Cardinality(db.files)
        /\ \A e \in Written : ~IsBelow(e.path, Failing)
        /\ ReadableSiblings \subseteq Written

(***************************************************************************)
(* Properties of the FileIndex under two threads                           *)
(***************************************************************************)

\* The two orders in which the calls of the threads can follow each other.
SequentialDbs ==
    {Effect(Effect(conc_dbs[1], conc_call["A"], now), conc_call["B"], now),
     Effect(Effect(conc_dbs[1], conc_call["B"], now), conc_call["A"], now)}

\* C19: under every interleaving of two threads each call is atomic: what a
\* call returns is what it returns on one state of the database, a state
\* the database had between the calls of the other thread; and in the end
\* the database is what one of the two sequential orders of the calls
\* leaves.
C19_EveryCallAtomic ==
    /\ \A t \in Threads :
           (conc_call # <<>> /\ Returned(t) /\ conc_call[t].op \notin Writes) =>
               \E i \in 1..Len(conc_dbs) :
                   conc_result[t] = SelectsOn(conc_dbs[i], conc_call[t])
    /\ (conc_call # <<>> /\ \A t \in Threads : Returned(t)) => db \in SequentialDbs

(***************************************************************************)
(* Properties of the DirectoryWatcher                                      *)
(***************************************************************************)

\* The paths the callback of the last call was watching before the call.
WatchedBefore ==
    IF watch_call.callback \in Keys(watch_before.observers)
    THEN EntryOf(watch_before.observers, watch_call.callback).paths
    ELSE {}

\* The schedule calls of the last call.
Scheduled == SubSeq(schedules, watch_before.schedules + 1, Len(schedules))

\* C20: in any state of the watcher, watch(paths, callback) completes, the
\* callback then has exactly one entry in self.observers (made by its first
\* call, kept by the later ones), schedule has been called exactly once for
\* every path of paths that the callback was not watching, and these paths
\* are in its set; on a fresh watcher watch([p], callback) makes one
\* schedule call and one entry.
C20_WatchSchedulesNewPaths ==
    (watch_call.op = "watch" /\ has_watchdog) =>
        LET cb    == watch_call.callback
            asked == {watch_call.paths[i] : i \in 1..Len(watch_call.paths)}
        IN  /\ ~watch_call.raised
            /\ Cardinality({i \in 1..Len(observers) : observers[i].key = cb}) = 1
            /\ \A q \in asked \ WatchedBefore :
                   Cardinality({i \in 1..Len(Scheduled) :
                                    Scheduled[i] = [key |-> cb, path |-> q]}) = 1
            /\ Len(Scheduled) = Cardinality(asked \ WatchedBefore)
            /\ EntryOf(observers, cb).paths = WatchedBefore \cup asked

(***************************************************************************)
(* Properties of start and stop of the DirectoryWatcher                    *)
(***************************************************************************)

\* An Observer is active when its thread runs and was not told to stop.
Active(entry) == entry.thread = "alive"

\* C21: whenever start was the most recent of start and stop to return,
\* running is true and every registered Observer is active, the ones that
\* watch registered while running and the ones that were stopped earlier
\* included; whenever stop was the most recent, running is false and no
\* registered Observer is active.
C21_StartStopToggleEveryObserver ==
    /\ last_toggle = "start" =>
          /\ running
          /\ \A i \in 1..Len(observers) : Active(observers[i])
    /\ last_toggle = "stop" =>
          /\ ~running
          /\ \A i \in 1..Len(observers) : ~Active(observers[i])

(***************************************************************************)
(* Properties of the event handler                                         *)
(***************************************************************************)

\* The last event, and the calls of the callback made for it.
LastEvent == ev_event[1]
CallsForLastEvent == SubSeq(ev_calls, ev_before + 1, Len(ev_calls))

\* The event is one the handler lets through: no directory event, its
\* resolved path not in ignore_paths and matching no pattern.
LetThrough(event) ==
    /\ ~event.is_directory
    /\ Resolve(event.src_path) \notin OrEmptySet(ev_ignore_paths)
    /\ \A i \in 1..Len(OrEmptyList(ev_ignore_patterns)) :
          ~PathMatch(Resolve(event.src_path), OrEmptyList(ev_ignore_patterns)[i])

\* C22: for every event given to the handler the callback is called exactly
\* once, with the resolved path and the event type, if and only if the
\* event is not a directory event, its resolved path is not in
\* ignore_paths and matches none of ignore_patterns; otherwise the callback
\* is not called.
C22_CallbackIffLetThrough ==
    ev_event # <<>> =>
        IF LetThrough(LastEvent)
        THEN CallsForLastEvent = <<[path |-> Resolve(LastEvent.src_path),
                                    event_type |-> LastEvent.event_type]>>
        ELSE CallsForLastEvent = <<>>

\* An event whose path goes through the symbolic link reached the callback
\* of a handler that ignores paths and patterns, after an event that did
\* not.
C22_Witness ==
    /\ ev_event # <<>>
    /\ LastEvent.src_path[1] = NameL
    /\ ev_ignore_paths \notin {None, Some({})}
    /\ ev_ignore_patterns # None
    /\ Len(CallsForLastEvent) = 1
    /\ ev_before = 0

(***************************************************************************)
(* Properties of the lock of the DirectoryWatcher                          *)
(***************************************************************************)

\* C26: every read and every mutation of self.observers, in watch, start,
\* stop and join, happens while the thread holds self._lock, so that no
\* thread is in an iteration of self.observers that another thread has
\* added an entry to.
C26_RegistryOnlyUnderLock ==
    /\ \A a \in lk_access : a.locked
    /\ \A t \in DOMAIN lk_pc :
          lk_pc[t] = "iterating" => Len(observers) = lk_len[t]

(***************************************************************************)
(* Properties of watch without the watchdog package                        *)
(***************************************************************************)

\* C23: when the watchdog package cannot be imported, watch ends with an
\* error for its caller; it never returns normally with nothing registered.
C23_WatchFailsWithoutWatchdog ==
    (watch_call.op = "watch" /\ ~has_watchdog) => watch_call.raised

(***************************************************************************)
(* Properties of the worker pool of the parallel runner                    *)
(***************************************************************************)

\* The number of processor calls begun for future f.
InvocationsOf(f) == Cardinality({i \in 1..Len(invoked) : invoked[i] = f})

\* C24: at every moment of a process_parallel call with max_workers = n at
\* most n processor calls are in progress, no submitted item is processed
\* twice, and when the call is over every submitted item has been processed
\* exactly once.
C24_AtMostNAtOnceEachOnce ==
    /\ NumRunning <= max_workers
    /\ \A f \in DOMAIN future_state : InvocationsOf(f) <= 1
    /\ par_pc = "returned" =>
          \A f \in Futures(items) : InvocationsOf(f) = 1 /\ future_state[f] = "finished"

\* A call with more items than workers, two of them equal, is over, by
\* timeout.
C24_Witness ==
    /\ par_pc = "returned"
    /\ Len(items) = 3
    /\ items[1] = items[2]
    /\ max_workers < Len(items)
    /\ par_raised
    /\ Len(invoked) = 3

\* C25: the collection of the results keeps the caller until every
\* submitted unit is complete or the timeout has elapsed; when the timeout
\* elapses first, the caller gets control back at that point, without a
\* wait for the units that still run.
C25_TimeoutReturnsAtOnce ==
    /\ (par_pc = "returned" /\ ~par_raised) => AllFinished
    /\ (par_pc = "shutdown" /\ par_raised) => ENABLED Shutdown

(***************************************************************************)
(* Properties of the two copies of the rule selector                       *)
(***************************************************************************)

\* C27: cli.should_execute and config.should_execute return the same
\* boolean for every rule_tags, tags and skip_tags, an empty or None
\* argument included.
C27_CliAgreesWithConfig ==
    (sel_pc = "returned" /\ cli_pc = "returned") => cli_result = sel_result

\* Both copies have returned for a rule without tags (None), an empty set
\* of tags and a skip tag: the rule runs.
C27_Witness ==
    /\ sel_pc = "returned" /\ cli_pc = "returned"
    /\ rule_tags = None
    /\ tags = Some({})
    /\ skip_tags = Some({"a"})
    /\ cli_result

(***************************************************************************)
(* Properties of the tags of the FileIndex                                 *)
(***************************************************************************)

TagsOf(d, p) == {t \in d.tags : t.path = p}
HasRow(d, p) == \E r \in d.files : r.path = p

\* C28: add_file for a path that is in the index already leaves every tag
\* row of that path as it was.
C28_UpdateKeepsTags ==
    (idx_call.op = "add_file" /\ HasRow(idx_before, idx_call.arg.info.path)) =>
        TagsOf(db, idx_call.arg.info.path) = TagsOf(idx_before, idx_call.arg.info.path)

\* C29: after any calls of add_file, add_tag, remove_file and clean_index
\* every tag row has the file row of its path; add_tag for a path without a
\* file row raises and leaves both tables as they were.
C29_NoOrphanTags ==
    /\ \A t \in db.tags : HasRow(db, t.path)
    /\ (idx_call.op = "add_tag" /\ ~HasRow(idx_before, CallPath)) =>
          idx_call.raised /\ db = idx_before

\* add_tag has raised for a path that lost its file row, and its tags with
\* it, while another path keeps a tag.
C29_Witness ==
    /\ idx_call.op = "add_tag"
    /\ idx_call.raised
    /\ db = idx_before
    /\ db.tags # {}
    /\ ~HasRow(db, CallPath)

(***************************************************************************)
(* Properties of the basedir in execute_for_path                           *)
(***************************************************************************)

\* The roots a rule declares, over all its locations.
RootsOf(rule) ==
    {rule.locations[l][r] : <<l, r>> \in
        {<<l, r>> \in (1..Len(rule.locations)) \X (1..2) : r <= Len(rule.locations[l])}}

\* C30: the Resource given to each rule that execute_for_path executes has
\* as basedir the first root, in the rule's location order, of that rule
\* that contains the path, or no basedir when the rule declares no
\* locations; it never has the basedir set while an earlier rule of the
\* same call was matched.
C30_BasedirIsOfTheRuleItself ==
    run_entry = "execute_for_path" =>
        \A j \in 1..Len(executed) :
            LET rule == rules[executed[j].rule_nr + 1]
            IN  IF rule.locations = <<>>
                THEN executed[j].basedir = None
                ELSE /\ executed[j].basedir # None
                     /\ executed[j].basedir[1] \in RootsOf(rule)
                     /\ RelativeTo(path, executed[j].basedir[1]) # None
                     /\ executed[j].basedir = FirstMatch(rule.locations, path)

====
